---- MODULE Spec2Model ----
(***************************************************************************)
(* Market Seasonality Explorer: the data-derivation pipeline.              *)
(*                                                                         *)
(*   lib/binance-api.ts      RateLimiter, fetchBinanceAPI,                 *)
(*                           validateTradingSymbol                         *)
(*   hooks/use-market-data.ts fetchBinanceKlineData, enhanceVolatilityData,*)
(*                           useMarketData                                 *)
(*                                                                         *)
(* Units.  Limiter time is counted in steps of 100 ms.  Calendar instants  *)
(* are counted in quarter days (6 h) of UTC since 1970-01-01T00:00Z; a     *)
(* "yyyy-MM-dd" string is represented by its day number since 1970-01-01.  *)
(* Prices and volumes are whole numbers; a volatility is a whole number of *)
(* hundredths of a percent.                                                *)
(***************************************************************************)
EXTENDS Integers, Sequences, FiniteSets, TLC

VARIABLES
    \* ---- RateLimiter and fetchBinanceAPI (lib/binance-api.ts)
    clock,        \* Date.now(), in steps of 100 ms
    requests,     \* RateLimiter.requests: the recorded timestamps
    callers,      \* the fetchBinanceAPI calls made so far: position and locals of each
    proceeded,    \* history: the clock at which each waitIfNeeded() completed
    apiResult,    \* what the fetchBinanceAPI call that finished last returned or threw
    \* ---- the network
    net,          \* history: every request handed to fetch(), in issue order
    \* ---- a direct call of fetchBinanceKlineData (hooks/use-market-data.ts)
    call,         \* position, arguments, response and outcome of the call
    \* ---- useMarketData (hooks/use-market-data.ts)
    tz,           \* host time zone: local time = UTC + tz quarter days
    symbol,       \* prop symbol, a sequence of characters
    viewMode,     \* prop viewMode
    month,        \* prop month, an instant
    data,         \* state data
    loading,      \* state loading
    error,        \* state error ("null" when null)
    inflight,     \* the fetchData invocations suspended at their await
    started,      \* history: number of fetchData invocations so far
    latest,       \* history: what the most recently started invocation computed
    answered,     \* history: the response the hook handled last
    entry,        \* which entry point the behaviour exercises
    \* ---- the page component (lib/binance-api.ts)
    historicalData, \* state historicalData
    \* ---- a direct call of enhanceVolatilityData (hooks/use-market-data.ts)
    enh,          \* position, argument and result of the call
    \* ---- PatternAnalyzer (components/pattern-analyzer)
    analyzer,     \* props and memoized patterns of the component
    \* ---- ComparisonDialog (components/comparison-dialog.tsx)
    comparison,   \* the dialog's state and the request it awaits the answer of
    \* ---- AlertSystem (components/alert-system)
    alerts,       \* state alerts
    newAlert,     \* state newAlert: the form of the dialog
    permission,   \* Notification.permission
    notifications, \* history: number of notifications shown so far
    evaluations   \* history: number of runs of the evaluation effect so far

limVars  == <<clock, requests, callers, proceeded, apiResult>>
hookVars == <<symbol, viewMode, month, data, loading, error, inflight, started, latest, answered>>
alertVars == <<alerts, newAlert, permission, notifications, evaluations>>
paneVars == <<enh, analyzer, comparison, alerts, newAlert, permission, notifications, evaluations>>
vars     == <<clock, requests, callers, proceeded, apiResult, net, call, tz, entry,
              symbol, viewMode, month, data, loading, error, inflight, started, latest, answered,
              historicalData, enh, analyzer, comparison, alerts, newAlert, permission,
              notifications, evaluations>>

(***************************************************************************)
(* Bounds of the model.                                                    *)
(***************************************************************************)
MaxCallers == 4      \* fetchBinanceAPI calls made in one behaviour
MaxClock   == 13     \* the limiter clock stops here (1.3 s)
MaxRows    == 3      \* longest list of curated rows answered to a direct call
MaxHookRows == 1     \* longest list of rows answered to the hook
MaxFetches == 2      \* fetchData invocations in one behaviour
MaxEnhance == 9      \* longest list handed to a direct call of enhanceVolatilityData
MaxPageRows == 3     \* longest list of rows answered to the page
MaxAnalyzed == 31    \* longest list of records handed to PatternAnalyzer
MaxAdds    == 2      \* addAlert calls in one behaviour
MaxEvaluations == 3  \* runs of the evaluation effect of AlertSystem in one behaviour
MaxLoads   == 2      \* requests of ComparisonDialog in one behaviour

(***************************************************************************)
(* Small helpers.                                                          *)
(***************************************************************************)
Max2(a, b) == IF a >= b THEN a ELSE b
Min2(a, b) == IF a <= b THEN a ELSE b

SeqMin(s) == CHOOSE x \in {s[i] : i \in DOMAIN s} : \A j \in DOMAIN s : x <= s[j]

(***************************************************************************)
(* RateLimiter and fetchBinanceAPI                  (lib/binance-api.ts)   *)
(***************************************************************************)
MaxRequests  == 2    \* constructor argument maxRequests of the limiter modelled
TimeWindow   == 10   \* constructor argument timeWindow, in steps of 100 ms
SafetyMargin == 1    \* the "+ 100" buffer of waitIfNeeded, in steps of 100 ms

\* what the provider may answer to a request
StatusLines == {<<"429", "Too Many Requests">>, <<"500", "">>}
\* msg of the JSON error body: "none" when the body has no msg (or is no JSON)
Msgs == {"none", "", "Invalid symbol."}
FailedResponses == [ok : {FALSE}, status : StatusLines, msg : Msgs]

\* truthiness of errorData.msg
HasMsg(resp) == resp.msg # "none" /\ resp.msg # ""

\* what an async call ends with: its value, or the message of what it threw
Returned(records) == [threw |-> FALSE, message |-> <<>>, records |-> records]
Threw(message)    == [threw |-> TRUE, message |-> message, records |-> <<>>]

\* this.requests.filter((time) => now - time < this.timeWindow)
FreshRequests(reqs, now) == SelectSeq(reqs, LAMBDA time : now - time < TimeWindow)

\* this.timeWindow - (now - oldestRequest) + 100
WaitTime(reqs, now) == TimeWindow - (now - SeqMin(reqs)) + SafetyMargin

\* a limiter that lets maxRequests + 1 requests into the window
MustWait_Above(reqs, now) == Len(reqs) > MaxRequests /\ WaitTime(reqs, now) > 0

\* the part of waitIfNeeded() that runs when the limit is reached
MustWait(reqs, now) == Len(reqs) >= MaxRequests /\ WaitTime(reqs, now) > 0

\* the timestamp waitIfNeeded() records with this.requests.push(now)
PushedStamp(c) == callers[c].now

\* fetch(url.toString(), ...) of fetchBinanceAPI, reached after the limiter
IssueApiRequest == net' = Append(net, [endpoint |-> "exchangeInfo"])

UpperCase ==
    {"A", "B", "C", "D", "E", "F", "G", "H", "I", "J", "K", "L", "M",
     "N", "O", "P", "Q", "R", "S", "T", "U", "V", "W", "X", "Y", "Z"}

\* validateTradingSymbol(symbol): /^[A-Z]{2,10}USDT?$/ on a sequence of characters
validateTradingSymbol(sym) ==
    \E n \in 2 .. 10 :
        /\ Len(sym) \in {n + 3, n + 4}
        /\ \A i \in 1 .. n : sym[i] \in UpperCase
        /\ SubSeq(sym, n + 1, n + 3) = <<"U", "S", "D">>
        /\ Len(sym) = n + 4 => sym[n + 4] = "T"

\* errorMessage of fetchBinanceAPI
ApiErrorMessage(resp) ==
    IF HasMsg(resp) THEN <<resp.msg>>
    ELSE <<"HTTP ", resp.status[1], ": ", resp.status[2]>>

\* fetchBinanceAPI up to its first suspension: waitIfNeeded() either returns at
\* once, and the request goes out, or suspends on its timer
ApiCall ==
    /\ entry = "api"
    /\ Len(callers) < MaxCallers
    /\ LET now   == clock
           fresh == FreshRequests(requests, now)
       IN IF MustWait(fresh, now)
          THEN /\ requests' = fresh
               /\ callers' = Append(callers,
                     [pc |-> "waiting", now |-> now, wakeAt |-> clock + WaitTime(fresh, now)])
               /\ UNCHANGED <<proceeded, net>>
          ELSE /\ requests' = Append(fresh, now)
               /\ callers' = Append(callers, [pc |-> "fetching", now |-> now, wakeAt |-> clock])
               /\ proceeded' = Append(proceeded, clock)
               /\ IssueApiRequest
    /\ UNCHANGED <<clock, apiResult, call, tz, entry, hookVars, historicalData, paneVars>>

\* the timer of waitIfNeeded() fires: the request is recorded and goes out
ApiWake(c) ==
    /\ callers[c].pc = "waiting"
    /\ clock >= callers[c].wakeAt
    /\ requests' = Append(requests, PushedStamp(c))
    /\ callers' = [callers EXCEPT ![c].pc = "fetching"]
    /\ proceeded' = Append(proceeded, clock)
    /\ IssueApiRequest
    /\ UNCHANGED <<clock, apiResult, call, tz, entry, hookVars, historicalData, paneVars>>

\* the response arrives: fetchBinanceAPI returns the body or throws
ApiRespond(c) ==
    /\ callers[c].pc = "fetching"
    /\ callers' = [callers EXCEPT ![c].pc = "done"]
    /\ \E resp \in FailedResponses \cup {[ok |-> TRUE, status |-> <<"200", "OK">>, msg |-> "none"]} :
          apiResult' = IF resp.ok THEN Returned(<<>>) ELSE Threw(ApiErrorMessage(resp))
    /\ UNCHANGED <<clock, requests, proceeded, net, call, tz, entry, hookVars, historicalData, paneVars>>

\* time passes
Tick ==
    /\ clock < MaxClock
    /\ clock' = clock + 1
    /\ UNCHANGED <<requests, callers, proceeded, apiResult, net, call, tz, entry, hookVars, historicalData, paneVars>>


(***************************************************************************)
(* IEEE-754 values the code can meet.  A finite number is an integer; the  *)
(* two values below stand for Infinity and NaN and lie outside every range *)
(* of finite numbers the model uses.                                       *)
(***************************************************************************)
Infinity == 2^30
NaN      == -(2^30) - 1

isNaN(x)    == x = NaN
isFinite(x) == x # NaN /\ x # Infinity /\ x # -Infinity

\* a < b, a <= b, a > b of JavaScript: false as soon as one side is NaN
fLt(a, b) == ~isNaN(a) /\ ~isNaN(b) /\ a < b
fLe(a, b) == ~isNaN(a) /\ ~isNaN(b) /\ a <= b
fGt(a, b) == fLt(b, a)
fGe(a, b) == fLe(b, a)

\* Math.max(a, b), Math.min(a, b)
MathMax(a, b) == IF isNaN(a) \/ isNaN(b) THEN NaN ELSE Max2(a, b)
MathMin(a, b) == IF isNaN(a) \/ isNaN(b) THEN NaN ELSE Min2(a, b)

\* a - b
fSub(a, b) ==
    IF isNaN(a) \/ isNaN(b) THEN NaN
    ELSE IF ~isFinite(a) THEN (IF a = b THEN NaN ELSE a)
    ELSE IF ~isFinite(b) THEN -b
    ELSE a - b

\* (a / b) * k for b > 0 and k > 0, rounded down to a whole number
fDivTimes(a, b, k) ==
    IF isNaN(a) \/ isNaN(b) THEN NaN
    ELSE IF ~isFinite(a) THEN (IF ~isFinite(b) THEN NaN ELSE a)
    ELSE IF ~isFinite(b) THEN 0
    ELSE (a * k) \div b

(***************************************************************************)
(* Calendar.  Day 0 is 1970-01-01; instants are quarter days of UTC.       *)
(***************************************************************************)
LaunchDay == 17348   \* new Date(2017, 6, 1): 1 July 2017, in days since 1970-01-01

TimeZones == {-1, 0, 1}

\* the instant of local midnight of a day: new Date(y, m, d)
LocalMidnight(day, zone) == day * 4 - zone

\* BINANCE_LAUNCH_DATE.getTime()
BINANCE_LAUNCH_DATE(zone) == LocalMidnight(LaunchDay, zone)

\* format(date, "yyyy-MM-dd"): the calendar day of the instant in local time
FormatDay(instant, zone) == (instant + zone) \div 4

\* new Date("yyyy-MM-dd").getTime(): a date-only ISO string is UTC midnight
ParseDay(day) == day * 4

(***************************************************************************)
(* fetchBinanceKlineData                       (hooks/use-market-data.ts)  *)
(***************************************************************************)
\* the texts a price or volume field of a raw row may hold
NumericText == ("-1" :> -1) @@ ("0" :> 0) @@ ("1" :> 1) @@ ("2" :> 2) @@ ("3" :> 3)

\* Number.parseFloat(text)
parseFloat(text) ==
    IF text \in DOMAIN NumericText THEN NumericText[text]
    ELSE IF text = "Infinity" THEN Infinity
    ELSE NaN

\* Number(openTime): openTime is a JSON number or a text that is no number
Number(openTime) == IF openTime.isNumber THEN openTime.value ELSE NaN

Null == [null |-> TRUE]

\* the record the .map() callback returns for a row that passed every check
MarketData(date, open, high, low, close, volume, volatility) ==
    [date |-> date, open |-> open, high |-> high, low |-> low, close |-> close,
     volume |-> volume, volatility |-> volatility]

\* if (openPrice <= 0 || highPrice <= 0 || lowPrice <= 0 || closePrice <= 0)
InvalidPriceValues(openPrice, highPrice, lowPrice, closePrice) ==
    fLe(openPrice, 0) \/ fLe(highPrice, 0) \/ fLe(lowPrice, 0) \/ fLe(closePrice, 0)

\* the relationship check with its second half lost
InvalidPriceRelationships_HighOnly(openPrice, highPrice, lowPrice, closePrice) ==
    fLt(highPrice, MathMax(openPrice, closePrice))

\* if (highPrice < Math.max(openPrice, closePrice) || lowPrice > Math.min(openPrice, closePrice))
InvalidPriceRelationships(openPrice, highPrice, lowPrice, closePrice) ==
    \/ fLt(highPrice, MathMax(openPrice, closePrice))
    \/ fGt(lowPrice, MathMin(openPrice, closePrice))

\* openPrice > 0 ? ((highPrice - lowPrice) / openPrice) * 100 : 0, in hundredths
DailyVolatility(openPrice, highPrice, lowPrice) ==
    IF fGt(openPrice, 0) THEN fDivTimes(fSub(highPrice, lowPrice), openPrice, 10000) ELSE 0

\* the .map() callback: one raw row to a record, or to null
MapKline(kline, zone) ==
    IF ~kline.isArray \/ kline.length < 11 THEN Null
    ELSE LET openPrice   == parseFloat(kline.open)
             highPrice   == parseFloat(kline.high)
             lowPrice    == parseFloat(kline.low)
             closePrice  == parseFloat(kline.close)
             volumeValue == parseFloat(kline.volume)
             timestamp   == Number(kline.openTime)
         IN IF isNaN(openPrice) \/ isNaN(highPrice) \/ isNaN(lowPrice) \/ isNaN(closePrice)
                 \/ isNaN(volumeValue) THEN Null
            ELSE IF InvalidPriceValues(openPrice, highPrice, lowPrice, closePrice) THEN Null
            ELSE IF InvalidPriceRelationships(openPrice, highPrice, lowPrice, closePrice) THEN Null
            ELSE IF isNaN(timestamp) \/ fLe(timestamp, 0) THEN Null
            ELSE IF timestamp < BINANCE_LAUNCH_DATE(zone) THEN Null
            ELSE MarketData(FormatDay(timestamp, zone), openPrice, highPrice, lowPrice,
                            closePrice, volumeValue,
                            MathMax(0, DailyVolatility(openPrice, highPrice, lowPrice)))

RECURSIVE MapFilterKlines(_, _)
\* klineData.map(...).filter((item) => item !== null)
MapFilterKlines(klineData, zone) ==
    IF klineData = <<>> THEN <<>>
    ELSE LET item == MapKline(Head(klineData), zone)
             rest == MapFilterKlines(Tail(klineData), zone)
         IN IF item = Null THEN rest ELSE <<item>> \o rest

\* the error message that never looks at the body
KlineErrorMessage_StatusOnly(resp) ==
    <<"Binance API error: ", resp.status[1], " ", resp.status[2]>>

\* errorMessage of fetchBinanceKlineData for a response that is not ok
KlineErrorMessage(resp) ==
    IF HasMsg(resp) THEN <<"Binance API: ", resp.msg>>
    ELSE <<"Binance API error: ", resp.status[1], " ", resp.status[2]>>

\* the pre-check without the launch-date test
KlinePrecheck_NoLaunchTest(startTime, endTime, zone) ==
    IF startTime = 0 \/ endTime = 0 \/ startTime >= endTime THEN "throw" ELSE "request"

\* fetchBinanceKlineData before its fetch(): "throw", "empty" or "request"
KlinePrecheck(startTime, endTime, zone) ==
    IF startTime = 0 \/ endTime = 0 \/ startTime >= endTime THEN "throw"
    ELSE IF endTime < BINANCE_LAUNCH_DATE(zone) THEN "empty"
    ELSE "request"

\* the request fetchBinanceKlineData hands to fetch()
KlineRequest(sym, startTime, endTime, zone) ==
    [endpoint |-> "klines", symbol |-> sym,
     startTime |-> Max2(startTime, BINANCE_LAUNCH_DATE(zone)), endTime |-> endTime]

\* fetchBinanceKlineData after its fetch(): what it returns or throws
KlineOutcome(resp, zone) ==
    IF ~resp.ok THEN Threw(KlineErrorMessage(resp))
    ELSE IF ~resp.isList THEN Threw(<<"Invalid response format from Binance API">>)
    ELSE IF resp.rows = <<>> THEN Returned(<<>>)
    ELSE Returned(MapFilterKlines(resp.rows, zone))


(***************************************************************************)
(* The rows and responses the provider is let to send.                     *)
(***************************************************************************)
JsonNumber(n) == [isNumber |-> TRUE, value |-> n]
JsonText      == [isNumber |-> FALSE, value |-> 0]

Kline(length, openTime, open, high, low, close, volume) ==
    [isArray |-> TRUE, length |-> length, openTime |-> openTime,
     open |-> open, high |-> high, low |-> low, close |-> close, volume |-> volume]

\* UTC midnight of the days around the launch date
PreLaunchTime == ParseDay(LaunchDay - 1)
DayTwoTime    == ParseDay(LaunchDay + 1)
DayThreeTime  == ParseDay(LaunchDay + 2)

PriceTexts  == {"abc", "Infinity", "0", "1", "2"}
VolumeTexts == {"abc", "-1", "0", "1"}
OpenTimes   == {JsonText, JsonNumber(0), JsonNumber(PreLaunchTime), JsonNumber(DayTwoTime),
                JsonNumber(DayThreeTime)}

\* a value that is no array, and an array that is too short
NotAnArray == [Kline(0, JsonNumber(DayTwoTime), "1", "1", "1", "1", "1") EXCEPT !.isArray = FALSE]
ShortKline == Kline(10, JsonNumber(DayTwoTime), "1", "1", "1", "1", "1")

\* every full-length row over the field values above
AllKlines ==
    { Kline(12, t, o, h, l, c, v) :
        t \in OpenTimes, o \in PriceTexts, h \in PriceTexts, l \in PriceTexts,
        c \in PriceTexts, v \in VolumeTexts }

\* rows for the longer lists: three sound rows and one row for each defect
SoundKlines ==
    { Kline(12, JsonNumber(DayTwoTime), "1", "2", "1", "2", "1"),
      Kline(12, JsonNumber(DayThreeTime), "2", "3", "1", "1", "0"),
      Kline(11, JsonNumber(DayThreeTime), "1", "1", "1", "1", "3") }
DefectiveKlines ==
    { NotAnArray, ShortKline,
      Kline(12, JsonNumber(DayTwoTime), "1", "abc", "1", "2", "1"),
      Kline(12, JsonNumber(DayTwoTime), "1", "2", "-1", "2", "1"),
      Kline(12, JsonNumber(DayTwoTime), "2", "1", "1", "2", "1"),
      Kline(12, JsonNumber(DayTwoTime), "2", "3", "3", "2", "1"),
      Kline(12, JsonNumber(-4), "1", "2", "1", "2", "1"),
      Kline(12, JsonNumber(PreLaunchTime), "1", "2", "1", "2", "1") }
CuratedKlines == SoundKlines \cup DefectiveKlines

RECURSIVE SeqsUpTo(_, _)
\* the sequences over S of length at most n
SeqsUpTo(S, n) ==
    IF n = 0 THEN {<<>>}
    ELSE LET shorter == SeqsUpTo(S, n - 1)
         IN shorter \cup { Append(q, x) : q \in shorter, x \in S }

OkList(rows) == [ok |-> TRUE, isList |-> TRUE, rows |-> rows]
NotAList     == [ok |-> TRUE, isList |-> FALSE, rows |-> <<>>]

\* the responses to a direct call: every single row, and short lists of curated rows
CallResponses ==
    FailedResponses \cup {NotAList}
      \cup { OkList(<<k>>) : k \in AllKlines }
      \cup { OkList(rows) : rows \in SeqsUpTo(CuratedKlines, MaxRows) }

(***************************************************************************)
(* A direct call of fetchBinanceKlineData(symbol, startTime, endTime).     *)
(***************************************************************************)
BTCUSDT == <<"B", "T", "C", "U", "S", "D", "T">>

IdleCall ==
    [pc |-> "idle", startTime |-> 0, endTime |-> 0, response |-> NotAList,
     outcome |-> Returned(<<>>)]

\* the instants a caller passes as startTime and endTime
CallInstants == {0, PreLaunchTime - 8, PreLaunchTime - 4, DayTwoTime, DayThreeTime + 4}

\* the call up to its await, or to its end when it makes no request
KlineCall ==
    /\ entry = "call"
    /\ call.pc = "idle"
    /\ \E startTime \in CallInstants, endTime \in CallInstants :
          LET verdict == KlinePrecheck(startTime, endTime, tz)
              args    == [call EXCEPT !.startTime = startTime, !.endTime = endTime]
          IN CASE verdict = "throw" ->
                    /\ call' = [args EXCEPT !.pc = "threw",
                                            !.outcome = Threw(<<"Invalid date range provided">>)]
                    /\ net' = net
               [] verdict = "empty" ->
                    /\ call' = [args EXCEPT !.pc = "returned", !.outcome = Returned(<<>>)]
                    /\ net' = net
               [] verdict = "request" ->
                    /\ call' = [args EXCEPT !.pc = "awaiting"]
                    /\ net' = Append(net, KlineRequest(BTCUSDT, startTime, endTime, tz))
    /\ UNCHANGED <<limVars, tz, entry, hookVars, historicalData, paneVars>>

\* the response arrives and the call returns or throws
KlineRespond ==
    /\ call.pc = "awaiting"
    /\ \E resp \in CallResponses :
          LET result == KlineOutcome(resp, tz)
          IN call' = [call EXCEPT !.pc = IF result.threw THEN "threw" ELSE "returned",
                                  !.response = resp, !.outcome = result]
    /\ UNCHANGED <<limVars, net, tz, entry, hookVars, historicalData, paneVars>>


(***************************************************************************)
(* calculateVolatility, enhanceVolatilityData  (hooks/use-market-data.ts)  *)
(* A return is a whole number of thousandths, rounded down.                *)
(***************************************************************************)
RECURSIVE SumSeq(_)
SumSeq(s) == IF s = <<>> THEN 0 ELSE Head(s) + SumSeq(Tail(s))

RECURSIVE SqrtSearch(_, _, _)
SqrtSearch(n, lo, hi) ==
    IF lo >= hi THEN lo
    ELSE LET mid == (lo + hi + 1) \div 2
         IN IF mid * mid <= n THEN SqrtSearch(n, mid, hi) ELSE SqrtSearch(n, lo, mid - 1)

\* Math.sqrt(n), rounded down
MathSqrt(n) == SqrtSearch(n, 0, Min2(n, 46340))

\* value || 0
OrZero(value) == IF isNaN(value) THEN 0 ELSE value

\* typeof price === "number" && !isNaN(price) && price > 0
ValidPrice(price) == ~isNaN(price) /\ fGt(price, 0)

RECURSIVE Returns(_)
\* the finite returns between consecutive prices
Returns(validPrices) ==
    IF Len(validPrices) < 2 THEN <<>>
    ELSE LET returnValue == fDivTimes(fSub(validPrices[2], validPrices[1]), validPrices[1], 1000)
             rest        == Returns(Tail(validPrices))
         IN IF ~isNaN(returnValue) /\ isFinite(returnValue) THEN <<returnValue>> \o rest ELSE rest

\* the sample standard deviation in the place of the population one
calculateVolatility_Sample(prices) ==
    IF Len(prices) < 2 THEN 0
    ELSE LET validPrices == SelectSeq(prices, ValidPrice)
             returns     == Returns(validPrices)
         IN IF Len(validPrices) < 2 THEN 0
            ELSE IF Len(returns) = 0 THEN 0
            ELSE LET mean     == SumSeq(returns) \div Len(returns)
                     squares  == [i \in 1 .. Len(returns) |-> (returns[i] - mean) * (returns[i] - mean)]
                     variance == SumSeq(squares) \div Max2(1, Len(returns) - 1)
                 IN MathSqrt(variance * 100)

\* calculateVolatility(prices), in hundredths of a percent
calculateVolatility(prices) ==
    IF Len(prices) < 2 THEN 0
    ELSE LET validPrices == SelectSeq(prices, ValidPrice)
             returns     == Returns(validPrices)
         IN IF Len(validPrices) < 2 THEN 0
            ELSE IF Len(returns) = 0 THEN 0
            ELSE LET mean     == SumSeq(returns) \div Len(returns)
                     squares  == [i \in 1 .. Len(returns) |-> (returns[i] - mean) * (returns[i] - mean)]
                     variance == SumSeq(squares) \div Len(returns)
                 IN MathSqrt(variance * 100)

\* a blend that keeps the daily figure alone
Blend_DailyOnly(dailyVol, rollingVol) == dailyVol

\* dailyVol * 0.6 + rollingVol * 0.4
Blend(dailyVol, rollingVol) ==
    IF ~isFinite(dailyVol) THEN dailyVol
    ELSE (dailyVol * 6 + rollingVol * 4) \div 10

\* the callback that spreads the first record of the window, not the item
EnhanceAt_WindowStart(records, index) ==
    LET windowSize  == Min2(7, index)
        windowStart == Max2(1, index - windowSize + 1)
        item        == records[windowStart]
        window      == SubSeq(records, windowStart, index)
        validWindow == SelectSeq(window, LAMBDA d : ValidPrice(d.close))
        closePrices == [i \in 1 .. Len(validWindow) |-> validWindow[i].close]
        dailyVol    == MathMax(0, OrZero(item.volatility))
        rollingVol  == MathMax(0, OrZero(calculateVolatility(closePrices)))
    IN IF Len(validWindow) < 2 THEN [item EXCEPT !.volatility = dailyVol]
       ELSE [item EXCEPT !.volatility = Blend(dailyVol, rollingVol)]

\* the .map() callback of enhanceVolatilityData for the record at index (from 1)
EnhanceAt(records, index) ==
    LET item        == records[index]
        windowSize  == Min2(7, index)
        windowStart == Max2(1, index - windowSize + 1)
        window      == SubSeq(records, windowStart, index)
        validWindow == SelectSeq(window, LAMBDA d : ValidPrice(d.close))
        closePrices == [i \in 1 .. Len(validWindow) |-> validWindow[i].close]
        dailyVol    == MathMax(0, OrZero(item.volatility))
        rollingVol  == MathMax(0, OrZero(calculateVolatility(closePrices)))
    IN IF Len(validWindow) < 2 THEN [item EXCEPT !.volatility = dailyVol]
       ELSE [item EXCEPT !.volatility = Blend(dailyVol, rollingVol)]

enhanceVolatilityData(records) ==
    IF Len(records) < 2 THEN records
    ELSE [index \in 1 .. Len(records) |-> EnhanceAt(records, index)]

(***************************************************************************)
(* A direct call of enhanceVolatilityData(data) on what the fetcher made   *)
(* of a list of rows, one row a day from 2 July 2017 on.                   *)
(***************************************************************************)
\* <<open, high, low, close>> of a row
Shapes ==
    { <<"1", "1", "1", "1">>, <<"2", "2", "2", "2">>, <<"1", "2", "1", "2">>,
      <<"2", "2", "1", "1">>, <<"1", "3", "1", "3">>, <<"Infinity", "Infinity", "2", "2">> }

\* the row of the i-th day after the launch date with the prices of the shape
ShapedKline(i, shape, volume) ==
    Kline(12, JsonNumber(ParseDay(LaunchDay + i)), shape[1], shape[2], shape[3], shape[4], volume)

\* n rows on consecutive days whose shapes repeat the cycle given
CycleKlines(cycle, n) ==
    [i \in 1 .. n |-> ShapedKline(i, cycle[((i - 1) % Len(cycle)) + 1], "1")]

\* the lists handed to enhanceVolatilityData
EnhanceInputs(zone) ==
    { MapFilterKlines(CycleKlines(<<a, b, c>>, n), zone) :
        a \in Shapes, b \in Shapes, c \in Shapes, n \in 0 .. MaxEnhance }

IdleEnhance == [pc |-> "idle", input |-> <<>>, output |-> <<>>]

\* const enhancedData = enhanceVolatilityData(klineData)
EnhanceCall ==
    /\ entry = "enhance"
    /\ enh.pc = "idle"
    /\ enh' = [enh EXCEPT !.pc = "returned", !.output = enhanceVolatilityData(enh.input)]
    /\ UNCHANGED <<limVars, net, call, tz, entry, hookVars, historicalData, analyzer, comparison,
                   alertVars>>


(***************************************************************************)
(* date-fns on the model's calendar: May 2017 .. September 2017.           *)
(***************************************************************************)
\* the first days of May .. October 2017
MonthStarts == <<17287, 17318, 17348, 17379, 17410, 17440>>
MonthNames  == <<"May 2017", "June 2017", "July 2017", "August 2017", "September 2017">>

\* the index of the month the instant falls in, in local time
MonthIndex(instant, zone) ==
    CHOOSE i \in 1 .. 5 :
        MonthStarts[i] <= FormatDay(instant, zone) /\ FormatDay(instant, zone) < MonthStarts[i + 1]

\* startOfMonth(date).  An Invalid Date stays invalid.
startOfMonth(instant, zone) ==
    IF isNaN(instant) THEN NaN ELSE LocalMidnight(MonthStarts[MonthIndex(instant, zone)], zone)

\* endOfMonth(date): the last instant before the next month starts
endOfMonth(instant, zone) ==
    IF isNaN(instant) THEN NaN
    ELSE LocalMidnight(MonthStarts[MonthIndex(instant, zone) + 1], zone) - 1

\* subDays(date, amount)
subDays(instant, amount) == IF isNaN(instant) THEN NaN ELSE instant - 4 * amount

\* differenceInDays(later, earlier): full days
differenceInDays(later, earlier) == (later - earlier) \div 4

\* format(month, "MMMM yyyy")
FormatMonth(instant, zone) == MonthNames[MonthIndex(instant, zone)]

(***************************************************************************)
(* useMarketData                               (hooks/use-market-data.ts)  *)
(***************************************************************************)
NoError == <<>>

ETHBTC  == <<"E", "T", "H", "B", "T", "C">>
ABUSD   == <<"A", "B", "U", "S", "D">>

Symbols   == {BTCUSDT, ETHBTC, ABUSD}
\* the symbols the page is given
PageSymbols == {BTCUSDT, ETHBTC}
ViewModes == {"daily", "weekly"}
\* the view modes the page's control panel offers
PageViewModes == {"daily", "weekly", "monthly"}

\* the values of the month prop: an Invalid Date, mid June, the launch instant
\* itself, mid August
Months(zone) ==
    {NaN, LocalMidnight(LaunchDay - 16, zone) + 2, BINANCE_LAUNCH_DATE(zone),
     LocalMidnight(LaunchDay + 45, zone) + 1}

\* rows the provider sends to the hook: 2 July, 5 August, and a row too short
JulyKline   == Kline(12, JsonNumber(DayTwoTime), "1", "2", "1", "2", "1")
AugustKline == Kline(12, JsonNumber(ParseDay(LaunchDay + 35)), "2", "3", "1", "1", "0")
HookKlines  == {JulyKline, AugustKline, ShortKline}

\* the refusals the hook meets: a msg, an empty msg, no msg
HookFailures ==
    { [ok |-> FALSE, status |-> <<"429", "Too Many Requests">>, msg |-> "Invalid symbol."],
      [ok |-> FALSE, status |-> <<"500", "">>, msg |-> ""],
      [ok |-> FALSE, status |-> <<"429", "Too Many Requests">>, msg |-> "none"] }

HookResponses ==
    HookFailures \cup {NotAList} \cup { OkList(rows) : rows \in SeqsUpTo(HookKlines, MaxHookRows) }

\* the daily rows the provider holds for the page: 2, 8, 9 and 31 July and
\* 1 and 6 August 2017, in the order it sends them
PageKlines ==
    << ShapedKline(1, <<"2", "2", "1", "1">>, "2"),  ShapedKline(7, <<"1", "3", "1", "3">>, "3"),
       ShapedKline(8, <<"2", "2", "2", "2">>, "1"),  ShapedKline(30, <<"1", "2", "1", "1">>, "2"),
       ShapedKline(31, <<"1", "1", "1", "1">>, "3"), ShapedKline(36, <<"1", "2", "1", "2">>, "2") >>

RECURSIVE SubListsUpTo(_, _)
\* the lists of at most n elements of s, in the order of s
SubListsUpTo(s, n) ==
    IF s = <<>> \/ n = 0 THEN {<<>>}
    ELSE SubListsUpTo(Tail(s), n)
           \cup { <<Head(s)>> \o rest : rest \in SubListsUpTo(Tail(s), n - 1) }

\* what the provider answers to the page: a refusal, or some of its rows
PageResponses ==
    { [ok |-> FALSE, status |-> <<"429", "Too Many Requests">>, msg |-> "none"] }
      \cup { OkList(rows) : rows \in SubListsUpTo(PageKlines, MaxPageRows) }

\* the responses the behaviour draws from
Responses == IF entry = "page" THEN PageResponses ELSE HookResponses

BeforeLaunchMessage ==
    <<"No data available before ", "July 2017", " (Binance launch date)">>
NoTradingDataMessage(sym, mon, zone) ==
    <<"No trading data available for ">> \o sym \o <<" in ", FormatMonth(mon, zone),
      ". This symbol may not have existed or been trading during this time period.">>
NoDataMessage(sym, mon, zone) ==
    <<"No data available for ">> \o sym \o <<" in ", FormatMonth(mon, zone),
      ". The symbol may not have been trading during this period.">>

\* if (!symbol || symbol.length < 6)
InvalidSymbolFormat(sym) == sym = <<>> \/ Len(sym) < 6

\* actualStartDate.getTime() and monthEnd.getTime() of fetchData
StartTime(mon, zone) ==
    LET extendedStart == subDays(startOfMonth(mon, zone), 30)
    IN IF fGt(extendedStart, BINANCE_LAUNCH_DATE(zone)) THEN extendedStart
       ELSE BINANCE_LAUNCH_DATE(zone)
EndTime(mon, zone) == endOfMonth(mon, zone)

Settled(records, message) == [settled |-> TRUE, data |-> records, error |-> message]
Pending == [settled |-> FALSE, data |-> <<>>, error |-> NoError]

\* fetchData before its await: the state it settles in when it makes no request,
\* Pending when it hands a request to fetchBinanceKlineData's fetch()
FetchPrefix(sym, mon, zone) ==
    LET startTime == StartTime(mon, zone)
        endTime   == EndTime(mon, zone)
    IN IF fLt(mon, BINANCE_LAUNCH_DATE(zone)) THEN Settled(<<>>, BeforeLaunchMessage)
       ELSE IF isNaN(startTime) \/ isNaN(endTime) THEN Settled(<<>>, <<"Invalid date calculation">>)
       ELSE IF startTime >= endTime THEN Settled(<<>>, <<"Start date must be before end date">>)
       ELSE IF InvalidSymbolFormat(sym) THEN Settled(<<>>, <<"Invalid trading symbol format">>)
       ELSE IF differenceInDays(endTime, startTime) > 1000
            THEN Settled(<<>>, <<"Date range too large. Please select a more recent period.">>)
       ELSE LET verdict == KlinePrecheck(startTime, endTime, zone)
            IN IF verdict = "throw" THEN Settled(<<>>, <<"Invalid date range provided">>)
               ELSE IF verdict = "empty" THEN Settled(<<>>, NoTradingDataMessage(sym, mon, zone))
               ELSE Pending

\* enhancedData.filter(...): the records whose date lies in the month
FilterMonth(records, mon, zone) ==
    SelectSeq(records, LAMBDA item :
        /\ ParseDay(item.date) >= startOfMonth(mon, zone)
        /\ ParseDay(item.date) <= endOfMonth(mon, zone))

\* a fetchData that reports a month without records and keeps what it fetched
FetchSuffix_KeepsRecords(sym, mon, zone, resp) ==
    LET result == KlineOutcome(resp, zone)
    IN IF result.threw THEN Settled(<<>>, result.message)
       ELSE IF Len(result.records) = 0 THEN Settled(<<>>, NoTradingDataMessage(sym, mon, zone))
       ELSE LET filteredData == FilterMonth(enhanceVolatilityData(result.records), mon, zone)
            IN IF Len(filteredData) = 0 THEN Settled(result.records, NoDataMessage(sym, mon, zone))
               ELSE Settled(filteredData, NoError)

\* fetchData after its await: the state it settles in
FetchSuffix(sym, mon, zone, resp) ==
    LET result == KlineOutcome(resp, zone)
    IN IF result.threw THEN Settled(<<>>, result.message)
       ELSE IF Len(result.records) = 0 THEN Settled(<<>>, NoTradingDataMessage(sym, mon, zone))
       ELSE LET filteredData == FilterMonth(enhanceVolatilityData(result.records), mon, zone)
            IN IF Len(filteredData) = 0 THEN Settled(<<>>, NoDataMessage(sym, mon, zone))
               ELSE Settled(filteredData, NoError)

HistoryLimit == 180   \* combined.slice(-180)

\* s.slice(-n)
SliceLast(s, n) == IF Len(s) <= n THEN s ELSE SubSeq(s, Len(s) - n + 1, Len(s))

\* the accumulation effect of the page, run after a render in which loading,
\* error or data changed: the value of historicalData it leaves
AccumulateHistory(prev, isLoading, message, records) ==
    IF ~isLoading /\ message = NoError /\ Len(records) > 0
    THEN SliceLast(prev \o records, HistoryLimit)
    ELSE prev

\* one invocation of fetchData with the props given, up to its await, and the
\* effects of the page that follow it; history is historicalData as the render
\* that invoked fetchData left it
StartFetch(sym, mon, history) ==
    LET prefix == FetchPrefix(sym, mon, tz)
    IN /\ started < MaxFetches
       /\ started' = started + 1
       /\ latest' = prefix
       /\ answered' = answered
       /\ IF prefix.settled
          THEN /\ data' = prefix.data
               /\ error' = prefix.error
               /\ loading' = FALSE
               /\ UNCHANGED <<inflight, net>>
          ELSE /\ loading' = TRUE
               /\ error' = NoError
               /\ data' = data
               /\ inflight' = inflight \cup {[id |-> started + 1, symbol |-> sym, month |-> mon]}
               /\ net' = Append(net, KlineRequest(sym, StartTime(mon, tz), EndTime(mon, tz), tz))
       /\ historicalData' = AccumulateHistory(history, loading', error', data')

\* the effect runs for the first time
Mount ==
    /\ entry \in {"hook", "page"}
    /\ started = 0
    /\ StartFetch(symbol, month, historicalData)
    /\ UNCHANGED <<limVars, call, tz, entry, symbol, viewMode, month, paneVars>>

\* refetch()
Refetch ==
    /\ started > 0
    /\ StartFetch(symbol, month, historicalData)
    /\ UNCHANGED <<limVars, call, tz, entry, symbol, viewMode, month, paneVars>>

\* handleSymbolChange(sym): historicalData is reset, the symbol prop changes,
\* fetchData is rebuilt and the effect runs it
ChangeSymbol(sym) ==
    /\ started > 0
    /\ sym # symbol
    /\ symbol' = sym
    /\ StartFetch(sym, month, <<>>)
    /\ UNCHANGED <<limVars, call, tz, entry, viewMode, month, paneVars>>

\* the month prop changes
ChangeMonth(mon) ==
    /\ started > 0
    /\ month' = mon
    /\ StartFetch(symbol, mon, historicalData)
    /\ UNCHANGED <<limVars, call, tz, entry, symbol, viewMode, paneVars>>

\* the viewMode prop changes
ChangeViewMode(mode) ==
    /\ started > 0
    /\ mode # viewMode
    /\ viewMode' = mode
    /\ StartFetch(symbol, month, historicalData)
    /\ UNCHANGED <<limVars, call, tz, entry, symbol, month, paneVars>>

\* fetchData with a retry: a response that makes it throw sends the request again
Settle_Retry(f) ==
    /\ f \in inflight
    /\ \E resp \in Responses :
          LET suffix == FetchSuffix(f.symbol, f.month, tz, resp)
              failed == suffix.error # NoError /\ (~resp.ok \/ ~resp.isList)
          IN /\ data' = suffix.data
             /\ error' = suffix.error
             /\ loading' = FALSE
             /\ latest' = IF f.id = started THEN suffix ELSE latest
             /\ answered' = resp
             /\ inflight' = IF failed THEN inflight ELSE inflight \ {f}
             /\ net' = IF failed
                       THEN Append(net, KlineRequest(f.symbol, StartTime(f.month, tz),
                                                     EndTime(f.month, tz), tz))
                       ELSE net
    /\ historicalData' = AccumulateHistory(historicalData, loading', error', data')
    /\ UNCHANGED <<limVars, call, tz, entry, symbol, viewMode, month, started, paneVars>>

\* the response to a suspended invocation arrives, fetchData runs to its end
\* and the accumulation effect of the page runs on what it set
Settle(f) ==
    /\ f \in inflight
    /\ \E resp \in Responses :
          LET suffix == FetchSuffix(f.symbol, f.month, tz, resp)
          IN /\ data' = suffix.data
             /\ error' = suffix.error
             /\ loading' = FALSE
             /\ latest' = IF f.id = started THEN suffix ELSE latest
             /\ answered' = resp
    /\ inflight' = inflight \ {f}
    /\ historicalData' = AccumulateHistory(historicalData, loading', error', data')
    /\ UNCHANGED <<limVars, net, call, tz, entry, symbol, viewMode, month, started, paneVars>>

(***************************************************************************)
(* Calendar: the week buckets of the weekly view  (components/calendar.tsx)*)
(***************************************************************************)
\* getDay(date) of a calendar day: 0 is Sunday; 1970-01-01 was a Thursday
getDay(day) == (day + 4) % 7

\* startOfWeek(date): local midnight of the Sunday on or before it
startOfWeek(instant, zone) ==
    LET day == FormatDay(instant, zone)
    IN LocalMidnight(day - getDay(day), zone)

\* the week that ends on the instant the next one starts
endOfWeek_NextStart(instant, zone) ==
    LET day == FormatDay(instant, zone)
    IN LocalMidnight(day - getDay(day) + 7, zone)

\* endOfWeek(date): the last instant before the next Sunday starts
endOfWeek(instant, zone) ==
    LET day == FormatDay(instant, zone)
    IN LocalMidnight(day - getDay(day) + 7, zone) - 1

RECURSIVE eachWeekOfInterval(_, _, _)
\* eachWeekOfInterval({start, end}): the start of every week that meets it
eachWeekOfInterval(start, end, zone) ==
    IF startOfWeek(start, zone) > startOfWeek(end, zone) THEN <<>>
    ELSE <<startOfWeek(start, zone)>>
           \o eachWeekOfInterval(startOfWeek(start, zone) + 28, end, zone)

\* const weeks = eachWeekOfInterval({ start: calendarStart, end: calendarEnd })
Weeks(currentMonth, zone) ==
    LET calendarStart == startOfWeek(startOfMonth(currentMonth, zone), zone)
        calendarEnd   == endOfWeek(endOfMonth(currentMonth, zone), zone)
    IN eachWeekOfInterval(calendarStart, calendarEnd, zone)

\* itemDate >= weekStart && itemDate <= weekEnd
InWeek(item, weekStart, zone) ==
    /\ ParseDay(item.date) >= weekStart
    /\ ParseDay(item.date) <= endOfWeek(weekStart, zone)

\* value || 1
OrOne(value) == IF isNaN(value) \/ value = 0 THEN 1 ELSE value

\* bucket.reduce((sum, item) => sum + item.volatility, 0) of volatilities that
\* are not negative
VolatilitySum(bucket) ==
    IF \E i \in DOMAIN bucket : isNaN(bucket[i].volatility) THEN NaN
    ELSE IF \E i \in DOMAIN bucket : bucket[i].volatility = Infinity THEN Infinity
    ELSE SumSeq([i \in DOMAIN bucket |-> bucket[i].volatility])

\* bucket.reduce((sum, item) => sum + item.volatility, 0) / bucket.length:
\* 0 / 0 is NaN
AverageVolatility(bucket) ==
    IF bucket = <<>> THEN NaN
    ELSE IF isFinite(VolatilitySum(bucket)) THEN VolatilitySum(bucket) \div Len(bucket)
    ELSE VolatilitySum(bucket)

\* (a / b) * 100 in hundredths, for a finite b that is not 0
Percent(a, b) ==
    IF b > 0 THEN fDivTimes(a, b, 10000)
    ELSE IF isNaN(a) THEN NaN
    ELSE IF ~isFinite(a) THEN -a
    ELSE -((a * 10000) \div (-b))

\* bucket.length > 0
\*   ? (((bucket[bucket.length - 1]?.close || 0) - (bucket[0]?.open || 0))
\*        / (bucket[0]?.open || 1)) * 100
\*   : 0,                                                    in hundredths
Performance(bucket) ==
    IF Len(bucket) > 0
    THEN LET lastClose == OrZero(bucket[Len(bucket)].close)
             firstOpen == bucket[1].open
         IN IF firstOpen = Infinity THEN NaN   \* -Infinity / Infinity
            ELSE Percent(fSub(lastClose, OrZero(firstOpen)), OrOne(firstOpen))
    ELSE 0

\* the bucket the weeks.map() callback of renderWeeklyView computes
WeekBucket(records, weekStart, zone) ==
    LET weekData == SelectSeq(records, LAMBDA item : InWeek(item, weekStart, zone))
    IN [weekStart |-> weekStart, weekData |-> weekData,
        avgVolatility |-> OrZero(AverageVolatility(weekData)),
        totalVolume |-> SumSeq([i \in DOMAIN weekData |-> weekData[i].volume]),
        weekPerformance |-> Performance(weekData)]

\* the buckets of the weekly view, one a week
renderWeeklyView(records, currentMonth, zone) ==
    LET weeks == Weeks(currentMonth, zone)
    IN [index \in DOMAIN weeks |-> WeekBucket(records, weeks[index], zone)]

\* format(new Date(item.date), "yyyy-MM"): the month of the record in local
\* time, as an index of MonthStarts
MonthKey(item, zone) == MonthIndex(ParseDay(item.date), zone)

RECURSIVE MonthKeys(_, _)
\* the keys of monthlyData, in the order data.reduce() created them
MonthKeys(records, zone) ==
    IF records = <<>> THEN <<>>
    ELSE LET earlier == MonthKeys(SubSeq(records, 1, Len(records) - 1), zone)
             key     == MonthKey(records[Len(records)], zone)
         IN IF \E i \in DOMAIN earlier : earlier[i] = key THEN earlier
            ELSE Append(earlier, key)

\* the bucket the Object.entries(monthlyData).map() callback computes
MonthBucket(records, key, zone) ==
    LET monthData == SelectSeq(records, LAMBDA item : MonthKey(item, zone) = key)
    IN [month |-> key, monthData |-> monthData,
        avgVolatility |-> AverageVolatility(monthData),
        totalVolume |-> SumSeq([i \in DOMAIN monthData |-> monthData[i].volume]),
        monthPerformance |-> Performance(monthData)]

\* the buckets of the monthly view, one for every key of monthlyData
renderMonthlyView(records, zone) ==
    LET keys == MonthKeys(records, zone)
    IN [index \in DOMAIN keys |-> MonthBucket(records, keys[index], zone)]

(***************************************************************************)
(* PatternAnalyzer: the memoized pattern list  (components/pattern-analyzer)*)
(* A confidence is a whole number of N-ths of a percent, N being the       *)
(* number of records analysed, so that it is exact; a return and an        *)
(* avgImpact are whole numbers of hundredths, rounded down.  The display   *)
(* texts name and description are left out of a pattern.                   *)
(***************************************************************************)
\* the local calendar day of new Date(item.date)
LocalDayOf(item, zone) == FormatDay(ParseDay(item.date), zone)

\* getDate(date) of a calendar day: its day of the month
getDate(day) ==
    LET i == CHOOSE i \in 1 .. 5 : MonthStarts[i] <= day /\ day < MonthStarts[i + 1]
    IN day - MonthStarts[i] + 1

\* the sum of F over the records
SumOver(records, F(_)) == SumSeq([i \in DOMAIN records |-> F(records[i])])

VolatilityOf(item) == item.volatility
VolumeOf(item)     == item.volume

\* ((item.close - item.open) / item.open) * 100, in hundredths
PriceChange(item) == ((item.close - item.open) * 10000) \div item.open

Abs(x) == IF x < 0 THEN -x ELSE x
AbsChange(item) == Abs(PriceChange(item))

\* the test that takes 2 % itself for high
HighVolatility_Inclusive(item) == item.volatility >= 200

\* item.volatility > 2
HighVolatility(item) == item.volatility > 200

\* the confidence that is not capped
Confidence_Uncapped(cap, share, length) == share

\* Math.min(cap, (count / allData.length) * factor), share being count * factor
Confidence(cap, share, length) == Min2(cap * length, share)

\* the guard that lets every list but the empty one through
InsufficientData_EmptyOnly(allData) == Len(allData) = 0

\* if (allData.length < 30) return []
InsufficientData(allData) == Len(allData) < 30

\* weeklyData: the records of each day of the week
weeklyData(allData, zone) ==
    [day \in 0 .. 6 |-> SelectSeq(allData, LAMBDA item : getDay(LocalDayOf(item, zone)) = day)]

\* current.avgVolatility > max.avgVolatility, for two days that have records
MoreVolatile(current, max) ==
    SumOver(current, VolatilityOf) * Len(max) > SumOver(max, VolatilityOf) * Len(current)

\* mostVolatileDay: the reduce keeps the first day, in ascending order of
\* the keys, that no later day exceeds
mostVolatileDay(allData, zone) ==
    LET byDay   == weeklyData(allData, zone)
        present == {day \in 0 .. 6 : byDay[day] # <<>>}
    IN CHOOSE day \in present :
          \A other \in present :
              /\ other < day => MoreVolatile(byDay[day], byDay[other])
              /\ other > day => ~MoreVolatile(byDay[other], byDay[day])

\* the weekly detector: the patterns it pushes
WeeklyPatterns(allData, zone) ==
    LET dayData == weeklyData(allData, zone)[mostVolatileDay(allData, zone)]
        total   == SumOver(dayData, VolatilityOf)
        count   == Len(dayData)
    IN IF total > 200 * count /\ count >= 4
       THEN << [id |-> "weekly-volatility", type |-> "weekly",
                confidence |-> Confidence(95, count * 700, Len(allData)),
                occurrences |-> count, avgImpact |-> total \div count,
                severity |-> IF total > 300 * count THEN "high" ELSE "medium"] >>
       ELSE <<>>

\* dayOfMonth <= 10 ? "early" : dayOfMonth <= 20 ? "mid" : "late"
PeriodOf(item, zone) ==
    LET dayOfMonth == getDate(LocalDayOf(item, zone))
    IN IF dayOfMonth <= 10 THEN "early" ELSE IF dayOfMonth <= 20 THEN "mid" ELSE "late"

RECURSIVE Distinct(_)
\* the values of s in the order of their first occurrence
Distinct(s) ==
    IF s = <<>> THEN <<>>
    ELSE LET before == Distinct(SubSeq(s, 1, Len(s) - 1))
             last   == s[Len(s)]
         IN IF \E i \in DOMAIN before : before[i] = last THEN before ELSE Append(before, last)

\* the keys of monthlyData in the order Object.entries lists them
Periods(allData, zone) == Distinct([i \in DOMAIN allData |-> PeriodOf(allData[i], zone)])

MonthlyId == [early |-> "monthly-early", mid |-> "monthly-mid", late |-> "monthly-late"]

\* the forEach callback of the monthly detector for one period
MonthlyPattern(allData, period, zone) ==
    LET periodData == SelectSeq(allData, LAMBDA item : PeriodOf(item, zone) = period)
        count      == Len(periodData)
        total      == SumOver(periodData, PriceChange)
    IN IF Abs(total) > 100 * count /\ count >= 5
       THEN << [id |-> MonthlyId[period], type |-> "monthly",
                confidence |-> Confidence(90, count * 300, Len(allData)),
                occurrences |-> count, avgImpact |-> Abs(total) \div count,
                severity |-> IF Abs(total) > 300 * count THEN "high"
                             ELSE IF Abs(total) > 150 * count THEN "medium" ELSE "low"] >>
       ELSE <<>>

RECURSIVE MonthlyPatternsOf(_, _, _)
MonthlyPatternsOf(allData, periods, zone) ==
    IF periods = <<>> THEN <<>>
    ELSE MonthlyPattern(allData, Head(periods), zone)
           \o MonthlyPatternsOf(allData, Tail(periods), zone)

\* the monthly detector: the patterns it pushes, in the order of the periods
MonthlyPatterns(allData, zone) == MonthlyPatternsOf(allData, Periods(allData, zone), zone)

RECURSIVE ClusterLoop(_, _, _, _)
\* the for loop of the clustering detector from index i (from 1) on
ClusterLoop(allData, i, clusterCount, inCluster) ==
    IF i > Len(allData) THEN clusterCount
    ELSE IF HighVolatility(allData[i]) /\ HighVolatility(allData[i - 1])
         THEN ClusterLoop(allData, i + 1,
                          IF inCluster THEN clusterCount ELSE clusterCount + 1, TRUE)
         ELSE ClusterLoop(allData, i + 1, clusterCount, FALSE)

\* the count that takes every pair of high days for a cluster
ClusterCount_EveryPair(allData) ==
    Cardinality({i \in 2 .. Len(allData) :
                    HighVolatility(allData[i]) /\ HighVolatility(allData[i - 1])})

\* clusterCount after the loop
ClusterCount(allData) == ClusterLoop(allData, 2, 0, FALSE)

\* the clustering detector
ClusterPatterns(allData) ==
    LET clusterCount == ClusterCount(allData)
        high         == SelectSeq(allData, HighVolatility)
    IN IF clusterCount >= 3
       THEN << [id |-> "volatility-clustering", type |-> "volatility",
                confidence |-> Confidence(85, clusterCount * 1000, Len(allData)),
                occurrences |-> clusterCount,
                avgImpact |-> SumOver(high, VolatilityOf) \div Len(high),
                severity |-> "medium"] >>
       ELSE <<>>

\* the volume detector: item.volume > avgVolume * 2
VolumePatterns(allData) ==
    LET total        == SumOver(allData, VolumeOf)
        volumeSpikes == SelectSeq(allData, LAMBDA item : item.volume * Len(allData) > total * 2)
        count        == Len(volumeSpikes)
    IN IF count >= 3
       THEN << [id |-> "volume-spikes", type |-> "volume",
                confidence |-> Confidence(80, count * 1000, Len(allData)),
                occurrences |-> count,
                avgImpact |-> IF total = 0 THEN Infinity
                              ELSE (SumOver(volumeSpikes, VolumeOf) * Len(allData) * 100)
                                     \div (count * total),
                severity |-> "low"] >>
       ELSE <<>>

\* the anomaly detector: change > avgChange * 3
AnomalyPatterns(allData) ==
    LET total     == SumOver(allData, AbsChange)
        anomalies == SelectSeq(allData, LAMBDA item : AbsChange(item) * Len(allData) > total * 3)
        count     == Len(anomalies)
    IN IF count >= 2
       THEN << [id |-> "price-anomalies", type |-> "anomaly",
                confidence |-> Confidence(75, count * 2000, Len(allData)),
                occurrences |-> count,
                avgImpact |-> SumOver(anomalies, AbsChange) \div count,
                severity |-> "high"] >>
       ELSE <<>>

\* detectedPatterns before the sort
DetectedPatterns(allData, zone) ==
    WeeklyPatterns(allData, zone) \o MonthlyPatterns(allData, zone) \o ClusterPatterns(allData)
      \o VolumePatterns(allData) \o AnomalyPatterns(allData)

RECURSIVE StableSort(_)
\* Array.prototype.sort with (a, b) => b.confidence - a.confidence: stable
StableSort(s) ==
    IF Len(s) <= 1 THEN s
    ELSE LET first  == Head(s)
             rest   == StableSort(Tail(s))
             ahead  == Cardinality({i \in DOMAIN rest : rest[i].confidence > first.confidence})
         IN SubSeq(rest, 1, ahead) \o <<first>> \o SubSeq(rest, ahead + 1, Len(rest))

\* the list returned as it was detected
SortByConfidence_Unsorted(detectedPatterns) == detectedPatterns

\* detectedPatterns.sort((a, b) => b.confidence - a.confidence)
SortByConfidence(detectedPatterns) == StableSort(detectedPatterns)

\* the useMemo callback: patterns of historicalData followed by data
Patterns(history, current, zone) ==
    LET allData == history \o current
    IN IF InsufficientData(allData) THEN <<>>
       ELSE SortByConfidence(DetectedPatterns(allData, zone))

(***************************************************************************)
(* The record lists handed to PatternAnalyzer: one record a trading day    *)
(* from 2 July 2017 on, at prices around 100.                              *)
(***************************************************************************)
\* the record of a day: volatility is what the fetcher computes from the prices
DayRecord(date, open, high, low, close, volume) ==
    MarketData(date, open, high, low, close, volume, DailyVolatility(open, high, low))

\* the kinds of day: range 1 %, range 3 %, +2 %, -2 %, +50 %
Quiet(date, volume) == DayRecord(date, 100, 101, 100, 100, volume)
Wild(date, volume)  == DayRecord(date, 100, 103, 100, 100, volume)
Rally(date, volume) == DayRecord(date, 100, 102, 100, 102, volume)
Slump(date, volume) == DayRecord(date, 100, 100, 98, 98, volume)
Jump(date, volume)  == DayRecord(date, 100, 150, 100, 150, volume)

\* the positions of the wild days: none, one run of three days, three runs,
\* one day a week, three runs and one day a week, every day
WildDays ==
    { {}, {5, 6, 7}, {3, 4, 10, 11, 20, 21, 22}, {3, 10, 17, 24},
      {3, 4, 10, 11, 17, 20, 21, 22, 24}, 1 .. (MaxAnalyzed + 1) }
JumpDays  == { {}, {8, 15} }
SpikeDays == { {}, {2, 9, 16} }
Trends    == {"none", "early", "late", "all"}

\* the date of the k-th record: consecutive days, or a list with no record
\* from 26 to 31 July
DateAt(k, gap) == IF gap /\ k > 24 THEN LaunchDay + k + 6 ELSE LaunchDay + k

\* the k-th record of the list the parameters describe
RecordAt(k, wild, jumps, spikes, trend, gap) ==
    LET date   == DateAt(k, gap)
        volume == IF k \in spikes THEN 5 ELSE 1
    IN IF k \in jumps THEN Jump(date, volume)
       ELSE IF k \in wild THEN Wild(date, volume)
       ELSE IF trend = "all" THEN Rally(date, volume)
       ELSE IF trend = "early" /\ getDate(date) <= 10 THEN Rally(date, volume)
       ELSE IF trend = "late" /\ getDate(date) > 20 THEN Slump(date, volume)
       ELSE Quiet(date, volume)

\* the lengths of the lists: none, one short of the guard, and from the guard on
AnalyzedLengths == {0} \cup (29 .. MaxAnalyzed)

\* the lists of records analysed
AnalyzedLists ==
    { [k \in 1 .. n |-> RecordAt(k, wild, jumps, spikes, trend, gap)] :
        n \in AnalyzedLengths, wild \in WildDays, jumps \in JumpDays, spikes \in SpikeDays,
        trend \in Trends, gap \in BOOLEAN }

\* the props of the component: a list cut into historicalData and data
AnalyzerProps ==
    { [pc |-> "idle", historicalData |-> SubSeq(list, 1, Min2(cut, Len(list))),
       data |-> SubSeq(list, Min2(cut, Len(list)) + 1, Len(list)), patterns |-> <<>>] :
        list \in AnalyzedLists, cut \in {0, 20} }

IdleAnalyzer == [pc |-> "idle", historicalData |-> <<>>, data |-> <<>>, patterns |-> <<>>]

\* the component renders: the useMemo callback computes the patterns
Analyze ==
    /\ entry = "patterns"
    /\ analyzer.pc = "idle"
    /\ analyzer' = [analyzer EXCEPT
                       !.pc = "rendered",
                       !.patterns = Patterns(analyzer.historicalData, analyzer.data, tz)]
    /\ UNCHANGED <<limVars, net, call, tz, entry, hookVars, historicalData, enh, comparison,
                   alertVars>>

(***************************************************************************)
(* AlertSystem                                  (components/alert-system)  *)
(* A threshold and the value it is compared with are whole numbers of      *)
(* hundredths (of a percent, or of a million units of volume).  Date.now() *)
(* is the clock; of the passage of time the model keeps that addAlert runs *)
(* at a later instant than the addAlert before it, and that the Date of an *)
(* evaluation is the number of that evaluation.                            *)
(***************************************************************************)
AlertTypes      == {"volatility", "performance", "volume"}
AlertConditions == {"above", "below"}
\* Number.parseFloat(e.target.value) of the threshold field: empty, or "2"
AlertThresholds == {NaN, 200}

\* useState({type: "volatility", condition: "above", threshold: 2})
DefaultNewAlert == [type |-> "volatility", condition |-> "above", threshold |-> 200]

\* lastTriggered: undefined, or the Date of the evaluation that set it
Undefined   == [set |-> FALSE, at |-> 0]
DateAt_(at) == [set |-> TRUE, at |-> at]

\* currentValue of the evaluation effect for the alert
CurrentValue(alert, latestData) ==
    CASE alert.type = "volatility"  -> latestData.volatility
      [] alert.type = "performance" -> Abs(PriceChange(latestData))
      [] alert.type = "volume"      -> (latestData.volume * 100) \div 1000000

\* shouldTrigger of the evaluation effect
ShouldTrigger(alert, latestData) ==
    \/ alert.condition = "above" /\ fGt(CurrentValue(alert, latestData), alert.threshold)
    \/ alert.condition = "below" /\ fLt(CurrentValue(alert, latestData), alert.threshold)

\* the test that fires whenever the condition holds
FiresAlert_Refire(alert, latestData) ==
    alert.enabled /\ ShouldTrigger(alert, latestData)

\* the alert passes `if (!alert.enabled) return alert` and then
\* `if (shouldTrigger && !alert.triggered)`
FiresAlert(alert, latestData) ==
    alert.enabled /\ ShouldTrigger(alert, latestData) /\ ~alert.triggered

\* the callback that follows the condition both ways
EvaluateAlert_Level(alert, latestData, now) ==
    IF FiresAlert(alert, latestData)
    THEN [alert EXCEPT !.triggered = TRUE, !.lastTriggered = DateAt_(now)]
    ELSE IF alert.enabled
         THEN [alert EXCEPT !.triggered = ShouldTrigger(alert, latestData)]
         ELSE alert

\* the prevAlerts.map() callback of the evaluation effect
EvaluateAlert(alert, latestData, now) ==
    IF FiresAlert(alert, latestData)
    THEN [alert EXCEPT !.triggered = TRUE, !.lastTriggered = DateAt_(now)]
    ELSE alert

\* the evaluation effect, run after a render in which data or symbol changed;
\* new Date() is the instant of this run, later than that of the run before
EvaluationEffect(records) ==
    /\ evaluations' = evaluations + 1
    /\ IF Len(records) = 0
       THEN UNCHANGED <<alerts, notifications>>
       ELSE LET latestData == records[Len(records)]
                now        == evaluations'
                fired      == {i \in DOMAIN alerts : FiresAlert(alerts[i], latestData)}
            IN /\ alerts' = [i \in DOMAIN alerts |-> EvaluateAlert(alerts[i], latestData, now)]
               /\ notifications' = IF permission = "granted"
                                   THEN notifications + Cardinality(fired)
                                   ELSE notifications

\* the data prop changes: the hook set a new array
AlertDataChange(records) ==
    /\ entry = "alerts"
    /\ evaluations < MaxEvaluations
    /\ data' = records
    /\ EvaluationEffect(records)
    /\ UNCHANGED <<limVars, net, call, tz, entry, symbol, viewMode, month, loading, error,
                   inflight, started, latest, answered, historicalData, enh, analyzer,
                   comparison, newAlert, permission>>

\* the symbol prop changes
AlertSymbolChange(sym) ==
    /\ entry = "alerts"
    /\ evaluations < MaxEvaluations
    /\ sym # symbol
    /\ symbol' = sym
    /\ EvaluationEffect(data)
    /\ UNCHANGED <<limVars, net, call, tz, entry, viewMode, month, data, loading, error,
                   inflight, started, latest, answered, historicalData, enh, analyzer,
                   comparison, newAlert, permission>>

\* what no handler of the dialog touches
AlertFrame ==
    UNCHANGED <<requests, callers, proceeded, apiResult, net, call, tz, entry, hookVars,
                historicalData, enh, analyzer, comparison, permission, notifications,
                evaluations>>

\* onValueChange of the type select
SetAlertType(type) ==
    /\ entry = "alerts"
    /\ newAlert' = [newAlert EXCEPT !.type = type]
    /\ UNCHANGED <<clock, alerts>> /\ AlertFrame

\* onValueChange of the condition select
SetAlertCondition(condition) ==
    /\ entry = "alerts"
    /\ newAlert' = [newAlert EXCEPT !.condition = condition]
    /\ UNCHANGED <<clock, alerts>> /\ AlertFrame

\* onChange of the threshold field
SetAlertThreshold(threshold) ==
    /\ entry = "alerts"
    /\ newAlert' = [newAlert EXCEPT !.threshold = threshold]
    /\ UNCHANGED <<clock, alerts>> /\ AlertFrame

\* addAlert(), at an instant later than every addAlert before
addAlert ==
    /\ entry = "alerts"
    /\ clock < MaxAdds
    /\ clock' = clock + 1
    /\ alerts' = Append(alerts,
          [id |-> clock', type |-> newAlert.type, condition |-> newAlert.condition,
           threshold |-> newAlert.threshold, enabled |-> TRUE, triggered |-> FALSE,
           lastTriggered |-> Undefined])
    /\ newAlert' = DefaultNewAlert
    /\ AlertFrame

\* removeAlert(id)
removeAlert(id) ==
    /\ \E i \in DOMAIN alerts : alerts[i].id = id
    /\ alerts' = SelectSeq(alerts, LAMBDA alert : alert.id # id)
    /\ UNCHANGED <<clock, newAlert>> /\ AlertFrame

\* toggleAlert(id)
toggleAlert(id) ==
    /\ \E i \in DOMAIN alerts : alerts[i].id = id
    /\ alerts' = [i \in DOMAIN alerts |->
                    IF alerts[i].id = id
                    THEN [alerts[i] EXCEPT !.enabled = ~alerts[i].enabled, !.triggered = FALSE]
                    ELSE alerts[i]]
    /\ UNCHANGED <<clock, newAlert>> /\ AlertFrame

\* resetAlert(id): the button is there while the alert is triggered
resetAlert(id) ==
    /\ \E i \in DOMAIN alerts : alerts[i].id = id /\ alerts[i].triggered
    /\ alerts' = [i \in DOMAIN alerts |->
                    IF alerts[i].id = id THEN [alerts[i] EXCEPT !.triggered = FALSE]
                    ELSE alerts[i]]
    /\ UNCHANGED <<clock, newAlert>> /\ AlertFrame

\* the user answers Notification.requestPermission()
AnswerPermission(answer) ==
    /\ entry = "alerts"
    /\ permission = "default"
    /\ permission' = answer
    /\ UNCHANGED <<limVars, net, call, tz, entry, hookVars, historicalData, enh, analyzer,
                   comparison, alerts, newAlert, notifications, evaluations>>

\* the data the page hands to AlertSystem: the latest record is a day of
\* range 1 %, 2.5 % or 3 %
CalmDay     == DayRecord(LaunchDay + 1, 1000, 1010, 1000, 1000, 1000000)
StormyDay   == DayRecord(LaunchDay + 2, 1000, 1025, 1000, 1025, 3000000)
StormierDay == DayRecord(LaunchDay + 3, 1000, 1030, 1000, 1030, 2000000)
AlertData ==
    { <<>>, <<CalmDay, StormyDay>>, <<CalmDay, StormyDay, StormierDay>>, <<StormyDay, CalmDay>> }

(***************************************************************************)
(* ComparisonDialog                       (components/comparison-dialog.tsx)*)
(* currentData, currentMonth and symbol are the props the page hands over: *)
(* data, month and symbol.  customMonth and symbolCustomMonth stay null.   *)
(***************************************************************************)
ETHUSDT == <<"E", "T", "H", "U", "S", "D", "T">>

\* the pairs of CRYPTO_SYMBOLS the model selects from
ComparisonSymbols == {BTCUSDT, ETHUSDT}
ComparisonTypes   == {"time", "symbol"}
\* the periods of the two selects whose months lie on the model's calendar
ComparisonPeriods       == {"previous-month", "two-months-ago", "custom"}
SymbolComparisonPeriods == {"same-period", "previous-month", "custom"}

\* the useState() values of the dialog; no request is awaited
ClosedComparison ==
    [comparisonType |-> "time", comparisonPeriod |-> "previous-month",
     comparisonSymbol |-> <<>>, symbolComparisonPeriod |-> "same-period",
     comparisonData |-> <<>>, loading |-> FALSE, error |-> NoError, awaited |-> <<>>]

\* subMonths(date, amount): the same day of the month, or the month's last, at
\* the same time of day
subMonths(instant, amount, zone) ==
    LET from       == MonthIndex(instant, zone)
        dayOfMonth == FormatDay(instant, zone) - MonthStarts[from]
        timeOfDay  == (instant + zone) % 4
        length     == MonthStarts[from - amount + 1] - MonthStarts[from - amount]
    IN LocalMidnight(MonthStarts[from - amount] + Min2(dayOfMonth, length - 1), zone) + timeOfDay

\* getComparisonMonth()
getComparisonMonth(state, currentMonth, zone) ==
    IF state.comparisonType = "symbol"
    THEN CASE state.symbolComparisonPeriod = "same-period"    -> currentMonth
           [] state.symbolComparisonPeriod = "previous-month" -> subMonths(currentMonth, 1, zone)
           [] state.symbolComparisonPeriod = "custom"         -> currentMonth
           [] OTHER                                           -> currentMonth
    ELSE CASE state.comparisonPeriod = "previous-month" -> subMonths(currentMonth, 1, zone)
           [] state.comparisonPeriod = "two-months-ago" -> subMonths(currentMonth, 2, zone)
           [] state.comparisonPeriod = "custom"         -> subMonths(currentMonth, 1, zone)
           [] OTHER                                     -> subMonths(currentMonth, 1, zone)

\* getComparisonSymbol()
getComparisonSymbol(state, sym) ==
    IF state.comparisonType = "symbol" THEN state.comparisonSymbol ELSE sym

\* the .map() callback of fetchBinanceData: one raw row to a record, or to null
MapComparisonKline(kline, zone) ==
    IF ~kline.isArray \/ kline.length < 11 THEN Null
    ELSE LET openPrice   == parseFloat(kline.open)
             highPrice   == parseFloat(kline.high)
             lowPrice    == parseFloat(kline.low)
             closePrice  == parseFloat(kline.close)
             volumeValue == parseFloat(kline.volume)
             timestamp   == Number(kline.openTime)
         IN IF isNaN(openPrice) \/ isNaN(highPrice) \/ isNaN(lowPrice) \/ isNaN(closePrice)
                 \/ isNaN(volumeValue) THEN Null
            ELSE IF isNaN(timestamp) \/ fLe(timestamp, 0) THEN Null
            ELSE MarketData(FormatDay(timestamp, zone), openPrice, highPrice, lowPrice,
                            closePrice, volumeValue,
                            MathMax(0, DailyVolatility(openPrice, highPrice, lowPrice)))

RECURSIVE MapFilterComparisonKlines(_, _)
\* klineData.map(...).filter((item) => item !== null)
MapFilterComparisonKlines(klineData, zone) ==
    IF klineData = <<>> THEN <<>>
    ELSE LET item == MapComparisonKline(Head(klineData), zone)
             rest == MapFilterComparisonKlines(Tail(klineData), zone)
         IN IF item = Null THEN rest ELSE <<item>> \o rest

\* fetchBinanceData after its fetch(): what it returns or throws
ComparisonOutcome(resp, zone) ==
    IF ~resp.ok THEN Threw(<<"Binance API error: ", resp.status[1]>>)
    ELSE IF ~resp.isList THEN Threw(<<"klineData.map is not a function">>)
    ELSE Returned(MapFilterComparisonKlines(resp.rows, zone))

RECURSIVE MaxOf(_)
\* Math.max(...values) of one value or more
MaxOf(values) ==
    IF Len(values) = 1 THEN values[1] ELSE MathMax(values[1], MaxOf(Tail(values)))

RECURSIVE MinOf(_)
\* Math.min(...values) of one value or more
MinOf(values) ==
    IF Len(values) = 1 THEN values[1] ELSE MathMin(values[1], MinOf(Tail(values)))

\* calculateMetrics(data)
calculateMetrics(records) ==
    IF Len(records) = 0 THEN Null
    ELSE [avgVolatility |-> AverageVolatility(records),
          totalVolume   |-> SumSeq([i \in DOMAIN records |-> records[i].volume]),
          totalReturn   |-> Performance(records),
          maxPrice      |-> MaxOf([i \in DOMAIN records |-> records[i].high]),
          minPrice      |-> MinOf([i \in DOMAIN records |-> records[i].low]),
          tradingDays   |-> Len(records)]

\* what no handler of the dialog touches
ComparisonFrame ==
    UNCHANGED <<limVars, call, tz, entry, hookVars, historicalData, enh, analyzer, alertVars>>

\* onValueChange of the tabs
SetComparisonType(value) ==
    /\ entry = "compare"
    /\ value # comparison.comparisonType
    /\ comparison' = [comparison EXCEPT !.comparisonType = value]
    /\ UNCHANGED net /\ ComparisonFrame

\* onValueChange of the period select of the time tab
SetComparisonPeriod(value) ==
    /\ entry = "compare"
    /\ value # comparison.comparisonPeriod
    /\ comparison' = [comparison EXCEPT !.comparisonPeriod = value]
    /\ UNCHANGED net /\ ComparisonFrame

\* onValueChange of the pair select of the symbol tab
SetComparisonSymbol(value) ==
    /\ entry = "compare"
    /\ value # comparison.comparisonSymbol
    /\ comparison' = [comparison EXCEPT !.comparisonSymbol = value]
    /\ UNCHANGED net /\ ComparisonFrame

\* onValueChange of the period select of the symbol tab
SetSymbolComparisonPeriod(value) ==
    /\ entry = "compare"
    /\ value # comparison.symbolComparisonPeriod
    /\ comparison' = [comparison EXCEPT !.symbolComparisonPeriod = value]
    /\ UNCHANGED net /\ ComparisonFrame

\* loadComparisonData() up to its await; the button is disabled while loading
loadComparisonData ==
    /\ entry = "compare"
    /\ ~comparison.loading
    /\ Len(net) < MaxLoads
    /\ IF comparison.comparisonType = "symbol" /\ comparison.comparisonSymbol = <<>>
       THEN /\ comparison' = [comparison EXCEPT
                                 !.error = <<"Please select a trading pair for comparison">>]
            /\ UNCHANGED net
       ELSE IF /\ comparison.comparisonType = "symbol"
               /\ comparison.comparisonSymbol = symbol
               /\ comparison.symbolComparisonPeriod = "same-period"
       THEN /\ comparison' = [comparison EXCEPT !.error =
                  <<"Cannot compare the same trading pair with the same time period">>]
            /\ UNCHANGED net
       ELSE IF comparison.comparisonPeriod = "custom" /\ comparison.comparisonType = "time"
       THEN /\ comparison' = [comparison EXCEPT
                                 !.error = <<"Please select a custom month for comparison">>]
            /\ UNCHANGED net
       ELSE IF /\ comparison.symbolComparisonPeriod = "custom"
               /\ comparison.comparisonType = "symbol"
       THEN /\ comparison' = [comparison EXCEPT !.error =
                  <<"Please select a custom month for symbol comparison">>]
            /\ UNCHANGED net
       ELSE LET compMonth  == getComparisonMonth(comparison, month, tz)
                compSymbol == getComparisonSymbol(comparison, symbol)
                request    == [endpoint |-> "klines", symbol |-> compSymbol,
                               startTime |-> startOfMonth(compMonth, tz),
                               endTime |-> endOfMonth(compMonth, tz)]
            IN /\ comparison' = [comparison EXCEPT
                      !.loading = TRUE, !.error = NoError,
                      !.awaited = <<[symbol |-> compSymbol, month |-> compMonth]>>]
               /\ net' = Append(net, request)
    /\ ComparisonFrame

\* loadComparisonData() from the answer on: try, catch and finally
ComparisonSettle(resp) ==
    /\ entry = "compare"
    /\ comparison.awaited # <<>>
    /\ LET outcome == ComparisonOutcome(resp, tz)
           awaited == comparison.awaited[1]
           noData  == <<"No data available for ">> \o awaited.symbol
                        \o <<" in ", FormatMonth(awaited.month, tz)>>
       IN comparison' =
            IF outcome.threw
            THEN [comparison EXCEPT !.error = outcome.message, !.comparisonData = <<>>,
                                    !.loading = FALSE, !.awaited = <<>>]
            ELSE IF Len(outcome.records) = 0
            THEN [comparison EXCEPT !.error = noData, !.comparisonData = <<>>,
                                    !.loading = FALSE, !.awaited = <<>>]
            ELSE [comparison EXCEPT !.comparisonData = outcome.records,
                                    !.loading = FALSE, !.awaited = <<>>]
    /\ UNCHANGED net /\ ComparisonFrame

\* the answers of the provider to the dialog's request: a failure, a body
\* that is no list, no row, a row too short, two days of trading, and a day
\* that opened at 0 alone and ahead of another
ComparisonResponses ==
    { [ok |-> FALSE, status |-> <<"429", "Too Many Requests">>, msg |-> "none"],
      NotAList,
      OkList(<<>>),
      OkList(<<ShortKline>>),
      OkList(<<Kline(12, JsonNumber(DayTwoTime), "1", "2", "1", "2", "1"),
               Kline(12, JsonNumber(DayThreeTime), "2", "3", "1", "1", "0")>>),
      OkList(<<Kline(12, JsonNumber(DayTwoTime), "0", "2", "0", "2", "1")>>),
      OkList(<<Kline(12, JsonNumber(DayTwoTime), "0", "2", "0", "1", "1"),
               Kline(12, JsonNumber(DayThreeTime), "1", "3", "1", "3", "1")>>) }

\* the data of the hook the page hands over as currentData
ComparisonCurrentData == { <<>>, <<CalmDay, StormyDay>> }

(***************************************************************************)
(* Specifications.                                                         *)
(***************************************************************************)
LimiterIdle ==
    /\ clock = 0
    /\ requests = <<>>
    /\ callers = <<>>
    /\ proceeded = <<>>
    /\ apiResult = Returned(<<>>)

\* the components beside the hook, as constructed
PanesIdle ==
    /\ enh = IdleEnhance
    /\ analyzer = IdleAnalyzer
    /\ comparison = ClosedComparison
    /\ alerts = <<>>
    /\ newAlert = DefaultNewAlert
    /\ permission = "default"
    /\ notifications = 0
    /\ evaluations = 0

HookUnmounted ==
    /\ historicalData = <<>>
    /\ viewMode = "daily"
    /\ data = <<>>
    /\ loading = TRUE
    /\ error = NoError
    /\ inflight = {}
    /\ started = 0
    /\ latest = Pending
    /\ answered = NotAList

\* the limiter and fetchBinanceAPI
LimiterInit ==
    /\ entry = "api"
    /\ LimiterIdle /\ HookUnmounted /\ PanesIdle
    /\ net = <<>>
    /\ call = IdleCall
    /\ tz = 0
    /\ symbol = BTCUSDT
    /\ month = BINANCE_LAUNCH_DATE(0)

LimiterNext ==
    \/ ApiCall
    \/ \E c \in DOMAIN callers : ApiWake(c)
    \/ \E c \in DOMAIN callers : ApiRespond(c)
    \/ Tick

LimiterSpec == LimiterInit /\ [][LimiterNext]_vars

\* a direct call of fetchBinanceKlineData
CallInit ==
    /\ entry = "call"
    /\ LimiterIdle /\ HookUnmounted /\ PanesIdle
    /\ net = <<>>
    /\ call = IdleCall
    /\ tz \in TimeZones
    /\ symbol = BTCUSDT
    /\ month = BINANCE_LAUNCH_DATE(tz)

CallNext == KlineCall \/ KlineRespond

CallSpec == CallInit /\ [][CallNext]_vars

\* the mounted hook
HookInit ==
    /\ entry = "hook"
    /\ LimiterIdle /\ HookUnmounted /\ PanesIdle
    /\ net = <<>>
    /\ call = IdleCall
    /\ tz \in TimeZones
    /\ symbol \in Symbols
    /\ month \in Months(tz)

HookNext ==
    \/ Mount
    \/ Refetch
    \/ \E sym \in Symbols : ChangeSymbol(sym)
    \/ \E mon \in Months(tz) : ChangeMonth(mon)
    \/ \E mode \in ViewModes : ChangeViewMode(mode)
    \/ \E f \in inflight : Settle(f)

\* a direct call of enhanceVolatilityData
EnhanceInit ==
    /\ entry = "enhance"
    /\ LimiterIdle /\ HookUnmounted
    /\ net = <<>>
    /\ call = IdleCall
    /\ tz \in TimeZones
    /\ symbol = BTCUSDT
    /\ month = BINANCE_LAUNCH_DATE(tz)
    /\ enh \in [pc : {"idle"}, input : EnhanceInputs(tz), output : {<<>>}]
    /\ analyzer = IdleAnalyzer
    /\ comparison = ClosedComparison
    /\ alerts = <<>>
    /\ newAlert = DefaultNewAlert
    /\ permission = "default"
    /\ notifications = 0
    /\ evaluations = 0

EnhanceNext == EnhanceCall

EnhanceSpec == EnhanceInit /\ [][EnhanceNext]_vars

\* PatternAnalyzer rendered with the props given
PatternInit ==
    /\ entry = "patterns"
    /\ LimiterIdle /\ HookUnmounted
    /\ net = <<>>
    /\ call = IdleCall
    /\ tz \in TimeZones
    /\ symbol = BTCUSDT
    /\ month = BINANCE_LAUNCH_DATE(tz)
    /\ enh = IdleEnhance
    /\ analyzer \in AnalyzerProps
    /\ comparison = ClosedComparison
    /\ alerts = <<>>
    /\ newAlert = DefaultNewAlert
    /\ permission = "default"
    /\ notifications = 0
    /\ evaluations = 0

PatternNext == Analyze

PatternSpec == PatternInit /\ [][PatternNext]_vars

\* AlertSystem mounted with no alert; its first evaluation found none to map
AlertInit ==
    /\ entry = "alerts"
    /\ LimiterIdle
    /\ net = <<>>
    /\ call = IdleCall
    /\ tz = 0
    /\ symbol = BTCUSDT
    /\ month = BINANCE_LAUNCH_DATE(0)
    /\ historicalData = <<>>
    /\ viewMode = "daily"
    /\ data \in AlertData
    /\ loading = FALSE
    /\ error = NoError
    /\ inflight = {}
    /\ started = 0
    /\ latest = Pending
    /\ answered = NotAList
    /\ enh = IdleEnhance
    /\ analyzer = IdleAnalyzer
    /\ comparison = ClosedComparison
    /\ alerts = <<>>
    /\ newAlert = DefaultNewAlert
    /\ permission = "default"
    /\ notifications = 0
    /\ evaluations = 1

AlertNext ==
    \/ \E records \in AlertData : AlertDataChange(records)
    \/ \E sym \in PageSymbols : AlertSymbolChange(sym)
    \/ \E type \in AlertTypes : SetAlertType(type)
    \/ \E condition \in AlertConditions : SetAlertCondition(condition)
    \/ \E threshold \in AlertThresholds : SetAlertThreshold(threshold)
    \/ addAlert
    \/ \E i \in DOMAIN alerts : removeAlert(alerts[i].id)
    \/ \E i \in DOMAIN alerts : toggleAlert(alerts[i].id)
    \/ \E i \in DOMAIN alerts : resetAlert(alerts[i].id)
    \/ \E answer \in {"granted", "denied"} : AnswerPermission(answer)

AlertSpec == AlertInit /\ [][AlertNext]_vars

Init == HookInit
Next == HookNext
Spec == Init /\ [][Next]_vars

\* the page: the hook, the history it accumulates and the calendar it renders
PageMonths(zone) == {BINANCE_LAUNCH_DATE(zone), LocalMidnight(LaunchDay + 45, zone) + 1}

PageInit ==
    /\ entry = "page"
    /\ LimiterIdle /\ HookUnmounted /\ PanesIdle
    /\ net = <<>>
    /\ call = IdleCall
    /\ tz \in TimeZones
    /\ symbol = BTCUSDT
    /\ month \in PageMonths(tz)

PageNext ==
    \/ Mount
    \/ Refetch
    \/ \E sym \in PageSymbols : ChangeSymbol(sym)
    \/ \E mon \in PageMonths(tz) : ChangeMonth(mon)
    \/ \E mode \in PageViewModes : ChangeViewMode(mode)
    \/ \E f \in inflight : Settle(f)

PageSpec == PageInit /\ [][PageNext]_vars

\* ComparisonDialog opened on the page's data
ComparisonInit ==
    /\ entry = "compare"
    /\ LimiterIdle
    /\ net = <<>>
    /\ call = IdleCall
    /\ tz \in TimeZones
    /\ symbol = BTCUSDT
    /\ month \in PageMonths(tz)
    /\ historicalData = <<>>
    /\ viewMode = "daily"
    /\ data \in ComparisonCurrentData
    /\ loading = FALSE
    /\ error = NoError
    /\ inflight = {}
    /\ started = 0
    /\ latest = Pending
    /\ answered = NotAList
    /\ PanesIdle

ComparisonNext ==
    \/ \E value \in ComparisonTypes : SetComparisonType(value)
    \/ \E value \in ComparisonPeriods : SetComparisonPeriod(value)
    \/ \E value \in ComparisonSymbols : SetComparisonSymbol(value)
    \/ \E value \in SymbolComparisonPeriods : SetSymbolComparisonPeriod(value)
    \/ loadComparisonData
    \/ \E resp \in ComparisonResponses : ComparisonSettle(resp)

ComparisonSpec == ComparisonInit /\ [][ComparisonNext]_vars

\* either entry point of the fetch path: the direct call or the hook
FetchInit == CallInit \/ HookInit
FetchNext == CallNext \/ HookNext
FetchSpec == FetchInit /\ [][FetchNext]_vars


(***************************************************************************)
(* The claims.                                                             *)
(***************************************************************************)
\* the number of waitIfNeeded() calls that completed in [from, from + TimeWindow)
ProceededWithin(from) ==
    Cardinality({j \in DOMAIN proceeded : from <= proceeded[j] /\ proceeded[j] < from + TimeWindow})

\* C1: in any sliding interval of length timeWindow, at most maxRequests
\* waitIfNeeded() calls complete.
C1_SlidingWindowLimit ==
    \A i \in DOMAIN proceeded : ProceededWithin(proceeded[i]) <= MaxRequests

\* the klines requests handed to fetch() so far
KlinesRequests == {i \in DOMAIN net : net[i].endpoint = "klines"}

\* C2: every klines request that reaches the network was preceded by a
\* completed waitIfNeeded() call of its own.
C2_KlinesPassTheLimiter == Cardinality(KlinesRequests) <= Len(proceeded)

\* C3: once every fetch in flight has settled, data and error are those of
\* the most recently started fetch, in whatever order the responses arrived.
C3_LatestFetchWins ==
    (started > 0 /\ inflight = {}) =>
        (latest.settled /\ data = latest.data /\ error = latest.error)


\* the records a finished direct call returned
ReturnedRecords == IF call.pc = "returned" THEN call.outcome.records ELSE <<>>

\* C4: every record returned has open, high, low and close > 0,
\* high >= max(open, close), low <= min(open, close) and volatility >= 0.
C4_RecordsWellFormed ==
    \A i \in DOMAIN ReturnedRecords :
        LET r == ReturnedRecords[i]
        IN /\ fGt(r.open, 0) /\ fGt(r.high, 0) /\ fGt(r.low, 0) /\ fGt(r.close, 0)
           /\ fGe(r.high, r.open) /\ fGe(r.high, r.close)
           /\ fLe(r.low, r.open) /\ fLe(r.low, r.close)
           /\ fGe(r.volatility, 0)

\* the same with the volatility left out: the part of C4 that the code keeps
C4_PricesWellFormed ==
    \A i \in DOMAIN ReturnedRecords :
        LET r == ReturnedRecords[i]
        IN /\ fGt(r.open, 0) /\ fGt(r.high, 0) /\ fGt(r.low, 0) /\ fGt(r.close, 0)
           /\ fGe(r.high, r.open) /\ fGe(r.high, r.close)
           /\ fLe(r.low, r.open) /\ fLe(r.low, r.close)

\* C5: every record returned has volume >= 0 (a row of negative volume is
\* discarded, a row of volume 0 is kept).
C5_VolumeNonNegative ==
    \A i \in DOMAIN ReturnedRecords : fGe(ReturnedRecords[i].volume, 0)

\* a row with one of the defects C6 lists
ListedDefect(kline, zone) ==
    \/ ~kline.isArray
    \/ kline.length < 11
    \/ \E text \in {kline.open, kline.high, kline.low, kline.close, kline.volume} :
          text \notin DOMAIN NumericText /\ text # "Infinity"
    \/ ~kline.openTime.isNumber
    \/ \E text \in {kline.open, kline.high, kline.low, kline.close} : parseFloat(text) <= 0
    \/ parseFloat(kline.high) < parseFloat(kline.open)
    \/ parseFloat(kline.high) < parseFloat(kline.close)
    \/ parseFloat(kline.low) > parseFloat(kline.open)
    \/ parseFloat(kline.low) > parseFloat(kline.close)
    \/ kline.openTime.value <= 0
    \/ kline.openTime.value < LocalMidnight(LaunchDay, zone)

\* the record is the row: same day, same prices, same volume
SameRow(record, kline, zone) ==
    /\ record.date = FormatDay(kline.openTime.value, zone)
    /\ record.open = parseFloat(kline.open)
    /\ record.high = parseFloat(kline.high)
    /\ record.low = parseFloat(kline.low)
    /\ record.close = parseFloat(kline.close)
    /\ record.volume = parseFloat(kline.volume)

\* C6: whatever rows a list response mixes, the call returns normally and its
\* result is the rows without a listed defect, once each, in the order received.
C6_DefectiveRowsDropped ==
    (call.pc \in {"returned", "threw"} /\ call.response.ok /\ call.response.isList) =>
        LET sound == SelectSeq(call.response.rows, LAMBDA k : ~ListedDefect(k, tz))
        IN /\ call.pc = "returned"
           /\ Len(call.outcome.records) = Len(sound)
           /\ \A i \in DOMAIN sound : SameRow(call.outcome.records[i], sound[i], tz)

\* a sound row, a defective row and another sound row came, and two records left
C6_Witness ==
    /\ call.pc = "returned"
    /\ call.response.ok /\ call.response.isList
    /\ Len(call.response.rows) = 3
    /\ ~ListedDefect(call.response.rows[1], tz)
    /\ ListedDefect(call.response.rows[2], tz)
    /\ ~ListedDefect(call.response.rows[3], tz)
    /\ call.response.rows[1] # call.response.rows[3]
    /\ Len(call.outcome.records) = 2


\* a direct call was made with a proper range that ends before the launch date
CalledBeforeLaunch ==
    /\ entry = "call"
    /\ call.pc # "idle"
    /\ call.startTime # 0 /\ call.startTime < call.endTime
    /\ call.endTime < LocalMidnight(LaunchDay, tz)

\* a step in which fetchData is invoked for a month before the launch date
FetchDataBeforeLaunch ==
    /\ started' = started + 1
    /\ ~isNaN(month')
    /\ month' < LocalMidnight(LaunchDay, tz)

C7_HookWitness ==
    /\ entry = "hook"
    /\ started > 0
    /\ ~isNaN(month) /\ month < LocalMidnight(LaunchDay, tz)
    /\ latest = Settled(<<>>, BeforeLaunchMessage)
    /\ net = <<>>


\* a step in which a suspended fetchData invocation receives its response
SettleStep == inflight' # inflight /\ inflight' \subseteq inflight

\* the text is one of the pieces of the message
Carries(message, text) == \E i \in DOMAIN message : message[i] = text

\* C8: a response that is not ok, or is ok but no list, leaves the hook with
\* error = the message raised (the provider's msg when the body has one, the
\* status line otherwise), data = [] and loading = false.
C8_TransportErrorSurfaced ==
    [][SettleStep =>
        /\ ~answered'.ok =>
              /\ IF answered'.msg \notin {"none", ""}
                 THEN Carries(error', answered'.msg)
                 ELSE Carries(error', answered'.status[1]) /\ Carries(error', answered'.status[2])
              /\ data' = <<>> /\ loading' = FALSE
        /\ (answered'.ok /\ ~answered'.isList) =>
              (error' # NoError /\ data' = <<>> /\ loading' = FALSE)]_vars

\* the provider refused with a msg and the hook shows it
C8_Witness ==
    /\ started > 0 /\ inflight = {}
    /\ ~answered.ok /\ answered.msg = "Invalid symbol."
    /\ error = <<"Binance API: ", "Invalid symbol.">>
    /\ data = <<>> /\ loading = FALSE

\* C9: no symbol outside [A-Z]{2,10}USDT? reaches the network, and no symbol
\* inside it is refused by the input check.
C9_SymbolPatternEnforced ==
    /\ \A i \in KlinesRequests : validateTradingSymbol(net[i].symbol)
    /\ (started > 0 /\ validateTradingSymbol(symbol)) =>
          latest.error # <<"Invalid trading symbol format">>

C11_EnhanceKeepsFrame ==
    enh.pc = "returned" =>
        /\ Len(enh.output) = Len(enh.input)
        /\ \A i \in DOMAIN enh.input :
              /\ enh.output[i].date = enh.input[i].date
              /\ enh.output[i].open = enh.input[i].open
              /\ enh.output[i].high = enh.input[i].high
              /\ enh.output[i].low = enh.input[i].low
              /\ enh.output[i].close = enh.input[i].close
              /\ enh.output[i].volume = enh.input[i].volume
        /\ Len(enh.input) < 2 => enh.output = enh.input

\* a list of eight different days came back with another volatility on its last day
C11_Witness ==
    /\ enh.pc = "returned"
    /\ Len(enh.input) = 8
    /\ enh.input[7].close # enh.input[8].close
    /\ enh.output[8].volatility # enh.input[8].volatility

\* the page renders the calendar in its weekly view
WeeklyViewShown ==
    /\ entry = "page"
    /\ error = NoError
    /\ ~loading
    /\ viewMode = "weekly"

\* data is what the fetch for the month displayed produced
DataOfMonth == latest.settled /\ data = latest.data /\ error = latest.error

\* the buckets of the weekly view that hold the record
BucketsOf(item) ==
    {b \in DOMAIN renderWeeklyView(data, month, tz) :
        InWeek(item, renderWeeklyView(data, month, tz)[b].weekStart, tz)}

\* C12: for the month data of the hook and the week buckets of the weekly
\* view of that month, every record falls in exactly one bucket and the
\* totalVolume of the buckets adds up to the volume of the records.
C12_WeekBucketsPartition ==
    (WeeklyViewShown /\ DataOfMonth) =>
        LET buckets == renderWeeklyView(data, month, tz)
        IN /\ \A i \in DOMAIN data : Cardinality(BucketsOf(data[i])) = 1
           /\ SumSeq([b \in DOMAIN buckets |-> buckets[b].totalVolume])
                 = SumSeq([i \in DOMAIN data |-> data[i].volume])

\* the weekly view shows a month of three records, two of them in the same
\* week, one of them on a Sunday
C12_Witness ==
    /\ WeeklyViewShown /\ DataOfMonth
    /\ Len(data) = 3
    /\ \E i, j \in DOMAIN data : i # j /\ BucketsOf(data[i]) = BucketsOf(data[j])
    /\ \E i, j \in DOMAIN data : BucketsOf(data[i]) # BucketsOf(data[j])
    /\ \E i \in DOMAIN data : getDay(data[i].date) = 0

\* the records the component analysed
AllData == analyzer.historicalData \o analyzer.data

\* C13: the pattern list is empty whenever historicalData followed by data has
\* fewer than 30 records; the detectors run only on 30 records or more.
C13_InsufficientDataGuard ==
    (analyzer.pc = "rendered" /\ Len(AllData) < 30) => analyzer.patterns = <<>>

\* 29 records that would show patterns were analysed and none came out
C13_Witness ==
    /\ analyzer.pc = "rendered"
    /\ Len(AllData) = 29
    /\ analyzer.historicalData # <<>> /\ analyzer.data # <<>>
    /\ DetectedPatterns(AllData, tz) # <<>>
    /\ analyzer.patterns = <<>>

\* patterns were found on 30 records
C13_DetectorsRun ==
    /\ analyzer.pc = "rendered"
    /\ Len(AllData) = 30
    /\ analyzer.patterns # <<>>

\* C14: the pattern list is in descending order of confidence: of two adjacent
\* patterns the earlier has a confidence >= that of the later.
C14_SortedByConfidence ==
    analyzer.pc = "rendered" =>
        \A i \in 1 .. (Len(analyzer.patterns) - 1) :
            analyzer.patterns[i].confidence >= analyzer.patterns[i + 1].confidence

\* four patterns or more came out, in another order than they were detected
C14_Witness ==
    /\ analyzer.pc = "rendered"
    /\ Len(analyzer.patterns) >= 4
    /\ analyzer.patterns # DetectedPatterns(AllData, tz)
    /\ analyzer.patterns[1].confidence > analyzer.patterns[Len(analyzer.patterns)].confidence

\* the cap on the confidence of each type of pattern, in percent
ConfidenceCap ==
    [weekly |-> 95, monthly |-> 90, volatility |-> 85, volume |-> 80, anomaly |-> 75]

\* the most patterns a detector emits
PatternsPerType ==
    [weekly |-> 1, monthly |-> 3, volatility |-> 1, volume |-> 1, anomaly |-> 1]

\* C15: every pattern has a confidence within [0, 100] and not above the cap
\* of its detector, occurrences a natural number, and an id no other pattern
\* has; at most 7 patterns: one weekly, three monthly, one of each other type.
C15_PatternsBounded ==
    analyzer.pc = "rendered" =>
        LET patterns == analyzer.patterns
        IN /\ \A i \in DOMAIN patterns :
                 /\ patterns[i].type \in DOMAIN ConfidenceCap
                 /\ patterns[i].confidence >= 0
                 /\ patterns[i].confidence <= 100 * Len(AllData)
                 /\ patterns[i].confidence <= ConfidenceCap[patterns[i].type] * Len(AllData)
                 /\ patterns[i].occurrences \in Nat
           /\ \A i, j \in DOMAIN patterns : patterns[i].id = patterns[j].id => i = j
           /\ Len(patterns) <= 7
           /\ \A type \in DOMAIN PatternsPerType :
                 Cardinality({i \in DOMAIN patterns : patterns[i].type = type})
                    <= PatternsPerType[type]

\* seven patterns came out, one of them below its cap and one at its cap
C15_Witness ==
    /\ analyzer.pc = "rendered"
    /\ Len(analyzer.patterns) = 7
    /\ \E i \in DOMAIN analyzer.patterns :
          analyzer.patterns[i].confidence
             < ConfidenceCap[analyzer.patterns[i].type] * Len(AllData)
    /\ \E i \in DOMAIN analyzer.patterns :
          analyzer.patterns[i].confidence
             = ConfidenceCap[analyzer.patterns[i].type] * Len(AllData)

\* three consecutive records from index i on have a volatility above 2 %
RunOfThreeAt(records, i) ==
    /\ records[i].volatility > 200
    /\ records[i + 1].volatility > 200
    /\ records[i + 2].volatility > 200

\* the indices at which a run of two or more records above 2 % starts
RunStarts(records) ==
    {i \in 1 .. (Len(records) - 1) :
        /\ records[i].volatility > 200 /\ records[i + 1].volatility > 200
        /\ i > 1 => ~(records[i - 1].volatility > 200)}

\* a pattern of type volatility and severity medium is in the list
EmitsVolatilityPattern ==
    \E i \in DOMAIN analyzer.patterns :
        analyzer.patterns[i].type = "volatility" /\ analyzer.patterns[i].severity = "medium"

\* C20 as stated: on 30 records or more that hold a cluster of 3 or more
\* consecutive days above 2 %, a volatility pattern of severity medium is emitted.
C20_ClusterOfThreeDays ==
    (/\ analyzer.pc = "rendered"
     /\ Len(AllData) >= 30
     /\ \E i \in 1 .. (Len(AllData) - 2) : RunOfThreeAt(AllData, i))
        => EmitsVolatilityPattern

\* C20 as the code has it: on 30 records or more, a volatility pattern of
\* severity medium is emitted exactly when the records hold 3 or more separate
\* runs of 2 or more consecutive days above 2 %.
C20_ThreeClusters ==
    (analyzer.pc = "rendered" /\ Len(AllData) >= 30) =>
        (EmitsVolatilityPattern <=> Cardinality(RunStarts(AllData)) >= 3)

\* three runs, one of them three days long, and the pattern came out
C20_Witness ==
    /\ analyzer.pc = "rendered"
    /\ Len(AllData) >= 30
    /\ Cardinality(RunStarts(AllData)) = 3
    /\ \E i \in RunStarts(AllData) : RunOfThreeAt(AllData, i)
    /\ EmitsVolatilityPattern

\* the page renders PatternAnalyzer: no error screen and no loading screen
AnalyzerShown ==
    /\ entry = "page"
    /\ error = NoError
    /\ ~(loading /\ data = <<>>)

\* C16: whatever loads, month changes, refetches and symbol changes came
\* before, historicalData followed by data, as handed to PatternAnalyzer, is in
\* strictly ascending order of date, so that no two of its records share a date.
C16_CombinedStrictlyAscending ==
    AnalyzerShown =>
        LET allData == historicalData \o data
        IN \A i, j \in DOMAIN allData : i < j => allData[i].date < allData[j].date

\* a step in which the evaluation effect ran over a data that is not empty
EvaluationStep == evaluations' = evaluations + 1 /\ data' # <<>>

\* the alerts that are enabled, not triggered, and whose condition holds on
\* the latest of the records
Due(records) ==
    {i \in DOMAIN alerts :
        /\ alerts[i].enabled /\ ~alerts[i].triggered
        /\ ShouldTrigger(alerts[i], records[Len(records)])}

\* what an evaluation does to the alerts: one that is due becomes triggered
\* with lastTriggered set to the instant of the evaluation, one that is
\* triggered stays as it is
FiresOnce ==
    /\ DOMAIN alerts' = DOMAIN alerts
    /\ \A i \in Due(data') :
          alerts'[i] = [alerts[i] EXCEPT !.triggered = TRUE,
                                         !.lastTriggered = DateAt_(evaluations')]
    /\ \A i \in DOMAIN alerts : alerts[i].triggered => alerts'[i] = alerts[i]

\* C17 as stated: an evaluation moves each enabled alert whose condition holds
\* from triggered = false to true, sets lastTriggered and emits one notification
\* for it; an alert that is triggered is left unchanged and emits none.
C17_OneNotificationPerFiring ==
    [][EvaluationStep =>
          /\ FiresOnce
          /\ notifications' = notifications + Cardinality(Due(data'))]_vars

\* C17 as the code has it: the same, with the one notification emitted when
\* the notification permission is granted, and none emitted when it is not.
C17_FiresOnce ==
    [][EvaluationStep =>
          /\ FiresOnce
          /\ permission = "granted" =>
                 notifications' = notifications + Cardinality(Due(data'))
          /\ permission # "granted" => notifications' = notifications]_vars

\* the alert volatility above 2 fired in the second evaluation, one
\* notification went out, and the third evaluation found a latest record of 3 %
C17_Witness ==
    /\ entry = "alerts"
    /\ permission = "granted"
    /\ evaluations = 3
    /\ data = <<CalmDay, StormyDay, StormierDay>>
    /\ notifications = 1
    /\ \E i \in DOMAIN alerts :
          /\ alerts[i].type = "volatility" /\ alerts[i].condition = "above"
          /\ alerts[i].threshold = 200
          /\ alerts[i].enabled /\ alerts[i].triggered
          /\ alerts[i].lastTriggered = DateAt_(2)

\* C18: the triggered flag of an alert goes from true to false only in a
\* resetAlert or a toggleAlert of that alert; an evaluation clears no flag,
\* whether or not the condition still holds, and leaves a disabled alert as it is.
C18_ClearedOnlyByUser ==
    [][/\ \A i \in DOMAIN alerts : \A j \in DOMAIN alerts' :
             (/\ alerts'[j].id = alerts[i].id
              /\ alerts[i].triggered /\ ~alerts'[j].triggered)
                => (toggleAlert(alerts[i].id) \/ resetAlert(alerts[i].id))
       /\ evaluations' = evaluations + 1 =>
             /\ DOMAIN alerts' = DOMAIN alerts
             /\ \A i \in DOMAIN alerts :
                   /\ alerts[i].triggered => alerts'[i].triggered
                   /\ ~alerts[i].enabled => alerts'[i] = alerts[i]]_vars

\* after the third evaluation: one alert that fired in the second is still
\* triggered though the latest record no longer meets its condition, and a
\* disabled alert whose condition the latest record meets is not triggered
C18_Witness ==
    /\ entry = "alerts"
    /\ evaluations = 3
    /\ data # <<>>
    /\ \E i \in DOMAIN alerts :
          /\ alerts[i].enabled /\ alerts[i].triggered
          /\ alerts[i].lastTriggered = DateAt_(2)
          /\ ~ShouldTrigger(alerts[i], data[Len(data)])
    /\ \E i \in DOMAIN alerts :
          /\ ~alerts[i].enabled /\ ~alerts[i].triggered
          /\ alerts[i].lastTriggered = Undefined
          /\ ShouldTrigger(alerts[i], data[Len(data)])

\* C19: whenever data is not empty, an alert that is enabled and whose
\* condition holds on the latest record is triggered, with no further change of
\* data needed: also one that was just created, just reset or just re-enabled.
C19_TriggeredWheneverConditionHolds ==
    (entry = "alerts" /\ data # <<>>) =>
        \A i \in DOMAIN alerts :
            (alerts[i].enabled /\ ShouldTrigger(alerts[i], data[Len(data)]))
                => alerts[i].triggered

\* the first three fetchBinanceAPI calls were made at the same instant
ThreeAtOnce == Len(callers) >= 3 /\ callers[3].now = callers[1].now

\* C21: with maxRequests = 2 and timeWindow = 1000 ms, of three waitIfNeeded()
\* calls made at the same instant the first two return without suspending and
\* the third suspends for timeWindow - (now - oldest) + 100 ms, so that it has
\* not returned while less than 1000 ms have passed since the first call.
C21_ThirdCallWaits ==
    ThreeAtOnce =>
        /\ \A c \in 1 .. 2 : callers[c].pc # "waiting" /\ callers[c].wakeAt = callers[c].now
        /\ callers[3].wakeAt = callers[3].now + TimeWindow + SafetyMargin
        /\ callers[3].pc # "waiting" => clock >= callers[1].now + TimeWindow

\* the third of three calls made at once has returned, 1100 ms after the first
C21_Witness ==
    /\ entry = "api"
    /\ ThreeAtOnce
    /\ callers[3].pc # "waiting"
    /\ clock = callers[1].now + TimeWindow + SafetyMargin
    /\ Len(proceeded) = 3

\* the UTC calendar day of an instant
UtcDay(instant) == instant \div 4

\* the rows of the response to the finished direct call that became records,
\* in the order of the records returned
KeptRows ==
    IF call.pc = "returned" /\ call.response.ok /\ call.response.isList
    THEN SelectSeq(call.response.rows, LAMBDA kline : MapKline(kline, tz) # Null)
    ELSE <<>>

\* C22: the date of every record returned is the UTC calendar day of the open
\* timestamp of its row, whatever the time zone of the host.
C22_DateIsUtcDay ==
    /\ Len(ReturnedRecords) = Len(KeptRows)
    /\ \A i \in DOMAIN KeptRows :
          ReturnedRecords[i].date = UtcDay(Number(KeptRows[i].openTime))

\* Math.max(0, item.volatility || 0): the raw volatility as the blend takes it
Floored(volatility) == MathMax(0, OrZero(volatility))

\* the rolling volatility of the record at index: that of the valid closes of
\* the records max(1, index - 6) .. index
RollingAt(records, index) ==
    LET window      == SubSeq(records, Max2(1, index - 6), index)
        validWindow == SelectSeq(window, LAMBDA d : ValidPrice(d.close))
    IN MathMax(0, OrZero(calculateVolatility([i \in 1 .. Len(validWindow) |-> validWindow[i].close])))

\* the call was made on two records or more, each with a positive close
EnhancedPositiveCloses ==
    /\ enh.pc = "returned"
    /\ Len(enh.input) >= 2
    /\ \A i \in DOMAIN enh.input : ValidPrice(enh.input[i].close)

ValidWindow(records, index) ==
    SelectSeq(SubSeq(records, Max2(1, index - 6), index), LAMBDA d : ValidPrice(d.close))

\* 100 x the population standard deviation of the returns between consecutive
\* closes, in hundredths of a percent; the closes are two or more
PopulationDeviation(closes) ==
    LET returns  == [k \in 1 .. (Len(closes) - 1) |->
                        ((closes[k + 1] - closes[k]) * 1000) \div closes[k]]
        mean     == SumSeq(returns) \div Len(returns)
        variance == SumSeq([k \in DOMAIN returns |->
                               (returns[k] - mean) * (returns[k] - mean)]) \div Len(returns)
    IN MathSqrt(variance * 100)

\* the closes of the valid window of the record at index
WindowCloses(records, index) ==
    [k \in 1 .. Len(ValidWindow(records, index)) |-> ValidWindow(records, index)[k].close]

\* 0.6 x raw + 0.4 x rolling, in hundredths of a percent; NaN when raw is NaN
SixFour(raw, rolling) == IF isNaN(raw) THEN NaN ELSE (raw * 6 + rolling * 4) \div 10

HighAt(records, i) == records[i].volatility > 200

\* the indices at which a maximal run of two or more records above 2 % ends
RunEnds(records) ==
    {b \in 2 .. Len(records) :
        /\ HighAt(records, b) /\ HighAt(records, b - 1)
        /\ b < Len(records) => ~HighAt(records, b + 1)}

\* a record above 2 % with no such neighbour
IsolatedHighAt(records, i) ==
    /\ HighAt(records, i)
    /\ i > 1 => ~HighAt(records, i - 1)
    /\ i < Len(records) => ~HighAt(records, i + 1)

\* the volatility patterns of the list rendered
VolatilityPatterns ==
    SelectSeq(analyzer.patterns, LAMBDA pattern : pattern.type = "volatility")

\* C26: the cluster count of the clustering detector is the number of maximal
\* runs of 2 or more consecutive records with volatility > 2, and the detector
\* emits its pattern, with that count for occurrences, iff the count is >= 3.
C26_CountsMaximalRuns ==
    (analyzer.pc = "rendered" /\ Len(AllData) >= 30) =>
        /\ ClusterCount(AllData) = Cardinality(RunEnds(AllData))
        /\ Cardinality(RunEnds(AllData)) >= 3 =>
              /\ Len(VolatilityPatterns) = 1
              /\ VolatilityPatterns[1].occurrences = Cardinality(RunEnds(AllData))
        /\ Cardinality(RunEnds(AllData)) < 3 => VolatilityPatterns = <<>>

\* the list has three runs, one of them three days long, and two isolated high
\* days: the pattern came out with occurrences 3
C26_Witness ==
    /\ analyzer.pc = "rendered"
    /\ Len(AllData) >= 30
    /\ Cardinality(RunEnds(AllData)) = 3
    /\ \E b \in RunEnds(AllData) : HighAt(AllData, b - 2)
    /\ Cardinality({i \in DOMAIN AllData : IsolatedHighAt(AllData, i)}) = 2
    /\ Len(VolatilityPatterns) = 1
    /\ VolatilityPatterns[1].occurrences = 3

\* C28: in every state of useMarketData, whatever the order in which fetches
\* start and settle, an error that is not null goes with an empty data.
C28_ErrorImpliesNoData ==
    (entry \in {"hook", "page"} /\ error # NoError) => data = <<>>

\* the second fetch of the page ended in an error after the first had brought
\* records: data is empty again
C28_Witness ==
    /\ entry = "page"
    /\ started = 2
    /\ inflight = {}
    /\ historicalData # <<>>
    /\ error # NoError
    /\ data = <<>>

\* C29: loading is true in every state in which a fetch that useMarketData
\* started has not settled yet, overlapping fetches included.
C29_LoadingWhileInFlight ==
    (entry \in {"hook", "page"} /\ inflight # {}) => loading

\* the page renders the calendar, not the loading spinner
CalendarShown ==
    /\ entry = "page"
    /\ started > 0
    /\ ~loading

\* no record of data lies in the month the calendar displays
DisplayedMonthEmpty ==
    \A i \in DOMAIN data : MonthKey(data[i], tz) # MonthIndex(month, tz)

\* the weekly half of C23: every week of the month view has its bucket, and a
\* bucket without records shows 0, 0 and 0
EmptyWeeksEmitted ==
    (CalendarShown /\ viewMode = "weekly") =>
        LET buckets == renderWeeklyView(data, month, tz)
        IN /\ Len(buckets) = Len(Weeks(month, tz))
           /\ \A b \in DOMAIN buckets :
                 buckets[b].weekData = <<>> =>
                    /\ buckets[b].avgVolatility = 0
                    /\ buckets[b].totalVolume = 0
                    /\ buckets[b].weekPerformance = 0

\* the weekly view shows a month with a week of records and a week of none
EmptyWeeksWitness ==
    /\ CalendarShown /\ viewMode = "weekly"
    /\ \E b \in DOMAIN renderWeeklyView(data, month, tz) :
          renderWeeklyView(data, month, tz)[b].weekData = <<>>
    /\ \E b \in DOMAIN renderWeeklyView(data, month, tz) :
          renderWeeklyView(data, month, tz)[b].weekData # <<>>

\* the monthly half of C23: a displayed month without records has its bucket,
\* which shows 0, 0 and 0
EmptyMonthEmitted ==
    (CalendarShown /\ viewMode = "monthly" /\ DisplayedMonthEmpty) =>
        \E b \in DOMAIN renderMonthlyView(data, tz) :
            LET bucket == renderMonthlyView(data, tz)[b]
            IN /\ bucket.month = MonthIndex(month, tz)
               /\ bucket.avgVolatility = 0
               /\ bucket.totalVolume = 0
               /\ bucket.monthPerformance = 0

MonthBucketsHoldRecords ==
    CalendarShown =>
        \A b \in DOMAIN renderMonthlyView(data, tz) :
            renderMonthlyView(data, tz)[b].monthData # <<>>

\* the dialog shows the metrics of both sides
MetricsShown ==
    /\ entry = "compare"
    /\ ~comparison.loading
    /\ calculateMetrics(data) # Null
    /\ calculateMetrics(comparison.comparisonData) # Null

\* the bucket is empty or its first record opened at 0
EmptyOrOpenedAtZero(bucket) == bucket = <<>> \/ bucket[1].open = 0

\* the weeks and months of the calendar: the return of a bucket that is empty
\* or opened at 0 is 0
CalendarReturnIsZero ==
    CalendarShown =>
        /\ \A b \in DOMAIN renderWeeklyView(data, month, tz) :
             LET bucket == renderWeeklyView(data, month, tz)[b]
             IN EmptyOrOpenedAtZero(bucket.weekData) => bucket.weekPerformance = 0
        /\ \A b \in DOMAIN renderMonthlyView(data, tz) :
             LET bucket == renderMonthlyView(data, tz)[b]
             IN EmptyOrOpenedAtZero(bucket.monthData) => bucket.monthPerformance = 0

\* C27: the return the comparison dialog shows for a side whose first record
\* opened at 0 is 0 (a side without records has no metrics at all).
C27_ReturnIsZeroWhenOpenIsZero ==
    MetricsShown =>
        \A bucket \in {data, comparison.comparisonData} :
            EmptyOrOpenedAtZero(bucket) => calculateMetrics(bucket).totalReturn = 0

\* C30: historicalData holds records fetched for the selected symbol only: a
\* fetch started for another symbol that settles after the symbol change
\* appends nothing to it.
C30_NoRecordOfPreviousSymbol ==
    [][\A f \in inflight :
          (entry = "page" /\ inflight' = inflight \ {f} /\ f.symbol # symbol)
             => historicalData' = historicalData]_vars

====
